---------------------------- MODULE Spec2Model ----------------------------
(***************************************************************************)
(* Secure-Bank: the ledger (deposit / withdraw / transfer) and the access- *)
(* delegation protocol (request_access / grant_access / deny_access /      *)
(* view_user_account) of the Flask application, as concurrent request      *)
(* handlers over the MongoDB collections users, transactions,              *)
(* access_requests and audit_logs.                                         *)
(*                                                                         *)
(* Every request is one handler invocation, run by one of the server's     *)
(* workers.  A handler is cut into steps                                   *)
(* at its database operations: one step is the local computation up to and *)
(* including one find_one / update_one / insert_one, which MongoDB runs     *)
(* atomically; handlers of different requests interleave between steps.    *)
(* Time is counted in minutes since midnight of day 0.  Amounts are        *)
(* integers.                                                               *)
(***************************************************************************)
EXTENDS Integers, Sequences, FiniteSets, TLC

(* ------------------------------ bounds -------------------------------- *)
\* number of ledger requests (deposit, withdraw, transfer) the server accepts
NumLedgerRequests == 2
\* number of access-delegation requests the server accepts
NumAccessRequests == 3
\* number of requests the server handles at the same time
NumWorkers == 2
\* largest number of access requests already pending when the run starts
NumInitRequests == 2
\* the time the run starts at: 05:30 of day 0, in minutes
StartTime == 330
\* number of register requests the server accepts
NumRegistrations == 3
\* number of login requests the server accepts
NumLogins == 3
\* number of times the clock advances in one run
MaxTicks == 1
\* largest ordinary amount a request carries
MaxAmount == 2
\* the balance every account holds when the run starts
InitBalance == 2

(* -------------------------- program constants ------------------------- *)
\* user.py:86  if amount > 1000000
MAX_DEPOSIT == 1000000
\* token.py:14  timedelta(minutes=30)
TOKEN_TTL == 30
\* admin.py:84  timedelta(hours=24), in minutes
REQUEST_TTL == 24 * 60
\* minutes of a day, for datetime.hour and the start of today
DAY == 24 * 60
\* fraud_detection.py:33  if amount > 100000
HUGE_AMOUNT == 100000

UserIds == {"u1", "u2"}
AdminIds == {"a1", "a2"}
Amounts == (0..MaxAmount) \cup {MAX_DEPOSIT + 1}
\* the clock advances by half an hour, by a day, or by a day and a minute
TickSteps == {TOKEN_TTL, REQUEST_TTL, REQUEST_TTL + 1}
\* for the ledger: half an hour (05:30 -> 06:00) or a day (a new "today")
LedgerTickSteps == {TOKEN_TTL, REQUEST_TTL}

\* auth.py:42  every user document carries its own account_number
account_number(u) == IF u = "u1" THEN "ACC1" ELSE "ACC2"
\* the account numbers a transfer request may name: the two that exist, one
\* that no account has, and the empty string of a request that names none
ToAccounts == {"ACC1", "ACC2", "ACC9", ""}

VARIABLES
    users,            \* users collection: the documents register inserted
    balance,          \* users collection: user_id -> balance
    initial_balance,  \* the balances the run started from (never changes)
    transactions,     \* transactions collection, in insertion order
    audit_logs,       \* audit_logs collection, in insertion order
    access_requests,  \* access_requests collection; a request's _id is its index
    token_log,        \* every permission token generate_permission_token returned
    now,              \* datetime.utcnow(), in minutes
    ticks,            \* how often the clock has advanced
    started,          \* how many requests the server has accepted
    faulted,          \* whether a database operation has raised in some handler
    h                 \* worker -> its handler's position, inputs, locals, response

vars == <<users, balance, initial_balance, transactions, audit_logs, access_requests,
          token_log, now, ticks, started, faulted, h>>

\* the variables of the ledger, and those of access delegation
ledger_vars == <<balance, initial_balance, transactions>>
access_vars == <<access_requests, token_log>>

Workers == 1..NumWorkers

(* ------------------------------ helpers ------------------------------- *)
hour(t) == (t \div 60) % 24
today_start(t) == t - (t % DAY)

Min(a, b) == IF a < b THEN a ELSE b

RECURSIVE SumAmounts(_, _, _)
\* sum of the amounts of the records of sequence s, of type ty, owned by u
SumAmounts(s, u, ty) ==
    IF s = <<>> THEN 0
    ELSE (IF s[1].user_id = u /\ s[1].type = ty THEN s[1].amount ELSE 0)
         + SumAmounts(Tail(s), u, ty)

Credits(u) == SumAmounts(transactions, u, "credit")
Debits(u) == SumAmounts(transactions, u, "debit")

\* mongo.db.transactions.count_documents({user_id, timestamp >= today 00:00})
count_today(u, t) ==
    Cardinality({i \in 1..Len(transactions) :
        /\ transactions[i].user_id = u
        /\ transactions[i].timestamp >= today_start(t)})

\* a score that counts a withdrawal of exactly 0.8 of the balance as large
rule_based_fraud_score_from_ratio_08(amount, hr, balance_before, txn_count_today) ==
    Min(100,
        (IF balance_before > 0 /\ 10 * amount >= 8 * balance_before THEN 30 ELSE 0)
      + (IF 0 <= hr /\ hr <= 5 THEN 20 ELSE 0)
      + (IF txn_count_today > 10 THEN 25 ELSE 0)
      + (IF amount > HUGE_AMOUNT THEN 25 ELSE 0))

\* _rule_based_fraud_score, in hundredths
rule_based_fraud_score(amount, hr, balance_before, txn_count_today) ==
    Min(100,
        (IF balance_before > 0 /\ 10 * amount > 8 * balance_before THEN 30 ELSE 0)
      + (IF 0 <= hr /\ hr <= 5 THEN 20 ELSE 0)
      + (IF txn_count_today > 10 THEN 25 ELSE 0)
      + (IF amount > HUGE_AMOUNT THEN 25 ELSE 0))

\* predict_fraud, rule-based branch
predict_fraud(amount, hr, balance_before, txn_count_today) ==
    LET score == rule_based_fraud_score(amount, hr, balance_before, txn_count_today)
    IN  [is_fraud |-> score >= 50, fraud_score |-> score]

\* which branch a call of predict_fraud takes: fraud_model.pkl does not exist,
\* it exists and the model scores, or something in the try block raises
FraudModels == {"rule_based", "isolation_forest", "fallback_error"}

\* fraud_detection.py:56-65  what the isolation forest may return: prediction
\* -1 or 1, and a decision_function value normalised into [0, 1]
ForestVerdicts == [is_fraud : BOOLEAN, fraud_score : {0, 100}]

\* a predict_fraud whose except branch flags the transaction
predict_fraud_flagging_on_error(model, amount, hr, balance_before, txn_count_today) ==
    IF model = "isolation_forest" THEN ForestVerdicts
    ELSE IF model = "rule_based"
         THEN {predict_fraud(amount, hr, balance_before, txn_count_today)}
    ELSE {[is_fraud |-> TRUE, fraud_score |-> 100]}

\* fraud_detection.py:39-81  the verdicts a call may return, by branch
predict_fraud_outcomes(model, amount, hr, balance_before, txn_count_today) ==
    IF model = "isolation_forest" THEN ForestVerdicts
    ELSE IF model = "rule_based"
         THEN {predict_fraud(amount, hr, balance_before, txn_count_today)}
    ELSE {[is_fraud |-> FALSE, fraud_score |-> 0]}

\* the keys the handlers put into the details of an audit entry
Details == [amount |-> 0, to_account |-> "", fraud_flagged |-> FALSE, request_id |-> 0]

\* a log_action that writes over the newest entry instead of inserting
log_action_overwriting(actor_id, actor_role, action, target_user_id, details) ==
    LET entry == [actor_id |-> actor_id, actor_role |-> actor_role, action |-> action,
                  target_user_id |-> target_user_id, details |-> details]
    IN  IF audit_logs = <<>> THEN <<entry>>
        ELSE [audit_logs EXCEPT ![Len(audit_logs)] = entry]

\* services/audit.py log_action
log_action(actor_id, actor_role, action, target_user_id, details) ==
    Append(audit_logs,
           [actor_id |-> actor_id, actor_role |-> actor_role, action |-> action,
            target_user_id |-> target_user_id, details |-> details])

(* ------------------------- permission tokens -------------------------- *)
\* the request header carries no token / the document field is None
NoToken == [admin_id |-> "none", user_id |-> "none", request_id |-> 0,
            iat |-> 0, exp |-> 0, key |-> "none"]
\* absent granted_at / denied_at
NoTime == -1

\* token.py:6-16  the signed payload; key is the secret it is signed with
generate_permission_token(admin_id, user_id, request_id, t) ==
    [admin_id |-> admin_id, user_id |-> user_id, request_id |-> request_id,
     iat |-> t, exp |-> t + TOKEN_TTL, key |-> "PERMISSION_SECRET"]

\* the verification of the signature alone
verify_signature_only(token, t) == token.key = "PERMISSION_SECRET"

\* token.py:19-27  jwt.decode: the signature, then exp (expired once exp <= now);
\* TRUE when the payload is returned, FALSE when None is
verify_permission_token(token, t) ==
    /\ token.key = "PERMISSION_SECRET"
    /\ token.exp > t

(* --------------------------- handler records -------------------------- *)
\* Besides the handler's inputs and locals a record keeps facts for the
\* properties: writes, the number of writes the handler has made to users and
\* transactions; model, ctx_hour and ctx_count, the branch predict_fraud took
\* and the hour and the same-day count withdraw passed to it; mail, whether
\* the e-mail the handler has just sent was delivered (kept until its next
\* step); saw_expired, whether the handler read a pending request after
\* its expires_at; caller, who sent a grant / deny request (the handlers never
\* read it); and, for a ledger request, seq, the number of requests accepted up
\* to and including it, quiet, whether no other handler was running when it was
\* accepted, and pre_balance and pre_txn, the balances and the number of
\* Transaction records at that time.
NewHandler ==
    [op |-> "none", pc |-> "new", user_id |-> "none", amount |-> 0,
     to_account |-> "", balance_read |-> 0, new_balance |-> 0,
     recipient |-> "none", recipient_new_balance |-> 0,
     is_fraud |-> FALSE, fraud_score |-> 0, ts |-> 0,
     admin_id |-> "none", request_id |-> 0, token |-> NoToken,
     saw_expired |-> FALSE, email_sent |-> FALSE, writes |-> 0,
     status |-> 0, error |-> "none", warning |-> FALSE,
     caller |-> "none", req_status |-> "none", reason_len |-> 0,
     model |-> "none", ctx_hour |-> 0, ctx_count |-> 0,
     email |-> "none", account_number |-> "none", mail |-> "none",
     doc |-> 0, attempts |-> 0, session |-> FALSE,
     average_balance |-> 0, account_age_days |-> 0, monthly_transaction_count |-> 0,
     eligible |-> FALSE, score |-> 0,
     seq |-> 0, quiet |-> FALSE, pre_balance |-> [u \in UserIds |-> 0], pre_txn |-> 0]

InFlight(w) == h[w].pc \notin {"new", "done", "aborted"}
\* the server accepts a request while fewer than max were accepted, and hands it
\* to the free worker of lowest number; the worker's record of its previous
\* request is replaced
MayStart(w, max) ==
    /\ started < max
    /\ ~InFlight(w)
    /\ \A v \in Workers : v < w => InFlight(v)

\* no handler is between its first and its last step
AllQuiet == \A w \in Workers : ~InFlight(w)

\* the record of a ledger request at the moment the server accepts it
NewLedgerRequest ==
    [NewHandler EXCEPT !.seq = started + 1, !.quiet = AllQuiet,
                       !.pre_balance = balance, !.pre_txn = Len(transactions)]

\* the response ends the request; the outcome of its e-mail is kept no longer
Respond(rec, code, err) ==
    [rec EXCEPT !.pc = "done", !.status = code, !.error = err, !.mail = "none"]

\* a send_..._email that lets the exception of mail.send through to the handler
after_email_raising(rec, next, sent) ==
    IF sent THEN [rec EXCEPT !.pc = next, !.mail = "sent"]
    ELSE [rec EXCEPT !.pc = "aborted", !.status = 500, !.error = "InternalError",
                     !.mail = "failed"]

\* notification.py:48-53, 85-90, 122-127  mail.send inside try / except
\* Exception: the function returns True or False, the handler goes on to its
\* next statement either way
after_email(rec, next, sent) ==
    [rec EXCEPT !.pc = next, !.mail = IF sent THEN "sent" ELSE "failed"]

(* ------------------------------- Init --------------------------------- *)
\* auth.py:37-50  the fields of a user document the model keeps
\* (wrong_since_login is no field of the document: it counts, for the
\* properties, the wrong-password answers given since the last successful login)
user_doc(email, acct) ==
    [email |-> email, account_number |-> acct, role |-> "user",
     failed_login_attempts |-> 0, is_locked |-> FALSE, wrong_since_login |-> 0]

\* the users collection holding the two accounts u1 and u2
InitUsers == <<user_doc("amy@x", account_number("u1")),
               user_doc("bob@x", account_number("u2"))>>

\* the admin and the account of the i-th request pending at the start
init_admin(i) == IF i % 2 = 1 THEN "a1" ELSE "a2"
init_user(i) == IF i <= 2 THEN "u1" ELSE "u2"

\* admin.py:76-85  the document request_access inserts
new_access_request(admin_id, user_id, t) ==
    [admin_id |-> admin_id, user_id |-> user_id, status |-> "pending",
     permission_token |-> NoToken, requested_at |-> t,
     expires_at |-> t + REQUEST_TTL, granted_at |-> NoTime, denied_at |-> NoTime]

\* the ledger starts with funded accounts and no access request
LedgerInit ==
    /\ users = InitUsers
    /\ balance = [u \in UserIds |-> InitBalance]
    /\ initial_balance = balance
    /\ transactions = <<>>
    /\ audit_logs = <<>>
    /\ access_requests = <<>>
    /\ token_log = <<>>
    /\ now = StartTime
    /\ ticks = 0
    /\ started = 0
    /\ faulted = FALSE
    /\ h = [w \in Workers |-> NewHandler]

\* access delegation starts right after 0..NumInitRequests request_access calls
\* by different admins have completed
AccessInit ==
    /\ users = InitUsers
    /\ balance = [u \in UserIds |-> InitBalance]
    /\ initial_balance = balance
    /\ transactions = <<>>
    /\ \E n \in 0..NumInitRequests :
        /\ access_requests =
              [i \in 1..n |-> new_access_request(init_admin(i), init_user(i), StartTime)]
        /\ audit_logs =
              [i \in 1..n |->
                  [actor_id |-> init_admin(i), actor_role |-> "admin",
                   action |-> "request_account_access",
                   target_user_id |-> init_user(i),
                   details |-> [Details EXCEPT !.request_id = i]]]
    /\ token_log = <<>>
    /\ now = StartTime
    /\ ticks = 0
    /\ started = 0
    /\ faulted = FALSE
    /\ h = [w \in Workers |-> NewHandler]

\* the balances, same-day transaction counts and times of day a withdrawal
\* scenario starts from, and the amounts its requests carry
ScenarioBalances == {500, 1500}
ScenarioCounts == {10, 12}
ScenarioTimes == {120, StartTime}
ScenarioAmounts == {400, 1300, 1800}

\* a withdrawal scenario starts after n deposits of 1 made today into account
\* u1, which now holds b
ScenarioInit ==
    /\ users = InitUsers
    /\ \E b \in ScenarioBalances, n \in ScenarioCounts, t \in ScenarioTimes :
          /\ balance = [u \in UserIds |-> IF u = "u1" THEN b ELSE InitBalance]
          /\ initial_balance = [u \in UserIds |-> IF u = "u1" THEN b - n ELSE InitBalance]
          /\ transactions =
                [i \in 1..n |->
                    [user_id |-> "u1", type |-> "credit", amount |-> 1,
                     balance_after |-> b - n + i, related_account |-> "",
                     is_flagged |-> FALSE, fraud_score |-> 0, timestamp |-> t]]
          /\ audit_logs =
                [i \in 1..n |->
                    [actor_id |-> "u1", actor_role |-> "user", action |-> "deposit",
                     target_user_id |-> "none",
                     details |-> [Details EXCEPT !.amount = 1]]]
          /\ now = t
    /\ access_requests = <<>>
    /\ token_log = <<>>
    /\ ticks = 0
    /\ started = 0
    /\ faulted = FALSE
    /\ h = [w \in Workers |-> NewHandler]

(* ------------------------------ deposit ------------------------------- *)
\* user.py:83-90  validation, find_one, new_balance
DepositBegin(w, u, amt) ==
    /\ MayStart(w, NumLedgerRequests)
    /\ started' = started + 1
    /\ LET rec == [NewLedgerRequest EXCEPT !.op = "deposit", !.user_id = u, !.amount = amt]
       IN  h' = [h EXCEPT ![w] =
                IF amt <= 0 THEN Respond(rec, 400, "InvalidAmount")
                ELSE IF amt > MAX_DEPOSIT THEN Respond(rec, 400, "InvalidAmount")
                ELSE [rec EXCEPT !.pc = "dep_update",
                                 !.balance_read = balance[u],
                                 !.new_balance = balance[u] + amt]]
    /\ UNCHANGED <<users, ledger_vars, access_vars, audit_logs, now, ticks, faulted>>

\* user.py:93-96  update_one $set balance
DepositUpdate(w) ==
    /\ h[w].pc = "dep_update"
    /\ balance' = [balance EXCEPT ![h[w].user_id] = h[w].new_balance]
    /\ h' = [h EXCEPT ![w].pc = "dep_insert", ![w].writes = @ + 1]
    /\ UNCHANGED <<users, initial_balance, transactions, audit_logs, access_vars, now, ticks, started, faulted>>

\* user.py:99-109  insert_one credit record
DepositInsert(w) ==
    /\ h[w].pc = "dep_insert"
    /\ transactions' = Append(transactions,
            [user_id |-> h[w].user_id, type |-> "credit", amount |-> h[w].amount,
             balance_after |-> h[w].new_balance, related_account |-> "",
             is_flagged |-> FALSE, fraud_score |-> 0, timestamp |-> now])
    /\ h' = [h EXCEPT ![w].pc = "dep_email", ![w].writes = @ + 1]
    /\ UNCHANGED <<users, balance, initial_balance, audit_logs, access_vars, now, ticks, started, faulted>>

\* user.py:112  send_transaction_alert_email: returns True, or False when
\* mail.send raises (notification.py:124-127); deposit discards the result
DepositEmail(w) ==
    /\ h[w].pc = "dep_email"
    /\ \E sent \in BOOLEAN : h' = [h EXCEPT ![w] = after_email(h[w], "dep_audit", sent)]
    /\ UNCHANGED <<users, ledger_vars, access_vars, audit_logs, now, ticks, started, faulted>>

\* user.py:114-120  log_action, response
DepositAudit(w) ==
    /\ h[w].pc = "dep_audit"
    /\ audit_logs' = log_action(h[w].user_id, "user", "deposit", "none",
                               [Details EXCEPT !.amount = h[w].amount])
    /\ h' = [h EXCEPT ![w] = Respond(h[w], 200, "none")]
    /\ UNCHANGED <<users, ledger_vars, access_vars, now, ticks, started, faulted>>

(* ------------------------------ withdraw ------------------------------ *)
\* the sufficient-funds check that only asks for a positive balance
insufficient_balance_not_positive(bal, amt) == bal <= 0

\* the sufficient-funds comparison the wrong way round
insufficient_balance_reversed(bal, amt) == bal > amt

\* user.py:135  if user["balance"] < amount
insufficient_balance(bal, amt) == bal < amt

\* user.py:129-138  validation, find_one, sufficient-funds check, new_balance
WithdrawBegin(w, u, amt) ==
    /\ MayStart(w, NumLedgerRequests)
    /\ started' = started + 1
    /\ LET rec == [NewLedgerRequest EXCEPT !.op = "withdraw", !.user_id = u, !.amount = amt]
       IN  h' = [h EXCEPT ![w] =
                IF amt <= 0 THEN Respond(rec, 400, "InvalidAmount")
                ELSE IF insufficient_balance(balance[u], amt)
                     THEN Respond([rec EXCEPT !.balance_read = balance[u]],
                                  400, "InsufficientFunds")
                ELSE [rec EXCEPT !.pc = "wd_score",
                                 !.balance_read = balance[u],
                                 !.new_balance = balance[u] - amt]]
    /\ UNCHANGED <<users, ledger_vars, access_vars, audit_logs, now, ticks, faulted>>

\* user.py:141-150  count_documents of today's transactions, predict_fraud
WithdrawScore(w, model) ==
    /\ h[w].pc = "wd_score"
    /\ \E fraud_result \in predict_fraud_outcomes(model, h[w].amount, hour(now),
                              h[w].balance_read, count_today(h[w].user_id, now)) :
           h' = [h EXCEPT ![w].pc = "wd_update",
                          ![w].is_fraud = fraud_result.is_fraud,
                          ![w].fraud_score = fraud_result.fraud_score,
                          ![w].model = model,
                          ![w].ctx_hour = hour(now),
                          ![w].ctx_count = count_today(h[w].user_id, now)]
    /\ UNCHANGED <<users, ledger_vars, access_vars, audit_logs, now, ticks, started, faulted>>

\* user.py:153-156  update_one $set balance
WithdrawUpdate(w) ==
    /\ h[w].pc = "wd_update"
    /\ balance' = [balance EXCEPT ![h[w].user_id] = h[w].new_balance]
    /\ h' = [h EXCEPT ![w].pc = "wd_insert", ![w].writes = @ + 1]
    /\ UNCHANGED <<users, initial_balance, transactions, audit_logs, access_vars, now, ticks, started, faulted>>

\* user.py:159-169  insert_one debit record carrying the verdict
WithdrawInsert(w) ==
    /\ h[w].pc = "wd_insert"
    /\ transactions' = Append(transactions,
            [user_id |-> h[w].user_id, type |-> "debit", amount |-> h[w].amount,
             balance_after |-> h[w].new_balance, related_account |-> "",
             is_flagged |-> h[w].is_fraud, fraud_score |-> h[w].fraud_score,
             timestamp |-> now])
    /\ h' = [h EXCEPT ![w].pc = "wd_email", ![w].writes = @ + 1]
    /\ UNCHANGED <<users, balance, initial_balance, audit_logs, access_vars, now, ticks, started, faulted>>

\* user.py:171  send_transaction_alert_email (result discarded)
WithdrawEmail(w) ==
    /\ h[w].pc = "wd_email"
    /\ \E sent \in BOOLEAN : h' = [h EXCEPT ![w] = after_email(h[w], "wd_audit", sent)]
    /\ UNCHANGED <<users, ledger_vars, access_vars, audit_logs, now, ticks, started, faulted>>

\* user.py:172-186  log_action, response with the warning when flagged
WithdrawAudit(w) ==
    /\ h[w].pc = "wd_audit"
    /\ audit_logs' = log_action(h[w].user_id, "user", "withdrawal", "none",
                               [Details EXCEPT !.amount = h[w].amount,
                                               !.fraud_flagged = h[w].is_fraud])
    /\ h' = [h EXCEPT ![w] = [Respond(h[w], 200, "none") EXCEPT !.warning = h[w].is_fraud]]
    /\ UNCHANGED <<users, ledger_vars, access_vars, now, ticks, started, faulted>>

(* ------------------------------ transfer ------------------------------ *)
\* a lookup that returns an account whatever number it is given
find_some_account(acc) == CHOOSE u \in UserIds : TRUE

\* mongo.db.users.find_one({"account_number": to_account})
find_by_account_number(acc) ==
    IF \E u \in UserIds : account_number(u) = acc
    THEN CHOOSE u \in UserIds : account_number(u) = acc
    ELSE "none"

\* user.py:195-203  validation, find_one of the sender
TransferBegin(w, u, to, amt) ==
    /\ MayStart(w, NumLedgerRequests)
    /\ started' = started + 1
    /\ LET rec == [NewLedgerRequest EXCEPT !.op = "transfer", !.user_id = u, !.amount = amt,
                                     !.to_account = to]
       IN  h' = [h EXCEPT ![w] =
                IF to = "" THEN Respond(rec, 400, "RecipientRequired")
                ELSE IF amt <= 0 THEN Respond(rec, 400, "InvalidAmount")
                ELSE [rec EXCEPT !.pc = "tr_recipient", !.balance_read = balance[u]]]
    /\ UNCHANGED <<users, ledger_vars, access_vars, audit_logs, now, ticks, faulted>>

\* user.py:204-214  find_one of the recipient, the three checks, both new balances
TransferFindRecipient(w) ==
    /\ h[w].pc = "tr_recipient"
    /\ LET recipient == find_by_account_number(h[w].to_account)
       IN  h' = [h EXCEPT ![w] =
                IF recipient = "none" THEN Respond(h[w], 404, "RecipientNotFound")
                ELSE IF h[w].user_id = recipient
                     THEN Respond([h[w] EXCEPT !.recipient = recipient], 400, "SelfTransfer")
                ELSE IF h[w].balance_read < h[w].amount
                     THEN Respond([h[w] EXCEPT !.recipient = recipient],
                                  400, "InsufficientFunds")
                ELSE [h[w] EXCEPT !.pc = "tr_debit",
                                  !.recipient = recipient,
                                  !.new_balance = h[w].balance_read - h[w].amount,
                                  !.recipient_new_balance = balance[recipient] + h[w].amount]]
    /\ UNCHANGED <<users, ledger_vars, access_vars, audit_logs, now, ticks, started, faulted>>

\* user.py:217  update_one: debit the sender
TransferDebit(w) ==
    /\ h[w].pc = "tr_debit"
    /\ balance' = [balance EXCEPT ![h[w].user_id] = h[w].new_balance]
    /\ h' = [h EXCEPT ![w].pc = "tr_credit", ![w].writes = @ + 1]
    /\ UNCHANGED <<users, initial_balance, transactions, audit_logs, access_vars, now, ticks, started, faulted>>

\* the second update_one with the sender's _id in its filter
TransferCredit_to_sender(w) ==
    /\ h[w].pc = "tr_credit"
    /\ balance' = [balance EXCEPT ![h[w].user_id] = h[w].recipient_new_balance]
    /\ h' = [h EXCEPT ![w].pc = "tr_insert_debit", ![w].writes = @ + 1]
    /\ UNCHANGED <<users, initial_balance, transactions, audit_logs, access_vars, now, ticks, started, faulted>>

\* user.py:219  update_one: credit the recipient
TransferCredit(w) ==
    /\ h[w].pc = "tr_credit"
    /\ balance' = [balance EXCEPT ![h[w].recipient] = h[w].recipient_new_balance]
    /\ h' = [h EXCEPT ![w].pc = "tr_insert_debit", ![w].writes = @ + 1]
    /\ UNCHANGED <<users, initial_balance, transactions, audit_logs, access_vars, now, ticks, started, faulted>>

\* user.py:221-234  now = utcnow(); insert_one: the sender's debit record
TransferInsertDebit(w) ==
    /\ h[w].pc = "tr_insert_debit"
    /\ transactions' = Append(transactions,
            [user_id |-> h[w].user_id, type |-> "debit", amount |-> h[w].amount,
             balance_after |-> h[w].new_balance, related_account |-> h[w].to_account,
             is_flagged |-> FALSE, fraud_score |-> 0, timestamp |-> now])
    /\ h' = [h EXCEPT ![w].pc = "tr_insert_credit", ![w].writes = @ + 1, ![w].ts = now]
    /\ UNCHANGED <<users, balance, initial_balance, audit_logs, access_vars, now, ticks, started, faulted>>

\* user.py:237-247  insert_one: the recipient's credit record, same timestamp
TransferInsertCredit(w) ==
    /\ h[w].pc = "tr_insert_credit"
    /\ transactions' = Append(transactions,
            [user_id |-> h[w].recipient, type |-> "credit", amount |-> h[w].amount,
             balance_after |-> h[w].recipient_new_balance,
             related_account |-> account_number(h[w].user_id),
             is_flagged |-> FALSE, fraud_score |-> 0, timestamp |-> h[w].ts])
    /\ h' = [h EXCEPT ![w].pc = "tr_email", ![w].writes = @ + 1]
    /\ UNCHANGED <<users, balance, initial_balance, audit_logs, access_vars, now, ticks, started, faulted>>

\* user.py:249-250  the two send_transaction_alert_email calls (results
\* discarded); sent: both were delivered
TransferEmail(w) ==
    /\ h[w].pc = "tr_email"
    /\ \E sent \in BOOLEAN : h' = [h EXCEPT ![w] = after_email(h[w], "tr_audit", sent)]
    /\ UNCHANGED <<users, ledger_vars, access_vars, audit_logs, now, ticks, started, faulted>>

\* user.py:252-262  log_action, response
TransferAudit(w) ==
    /\ h[w].pc = "tr_audit"
    /\ audit_logs' = log_action(h[w].user_id, "user", "transfer", "none",
                               [Details EXCEPT !.amount = h[w].amount,
                                               !.to_account = h[w].to_account])
    /\ h' = [h EXCEPT ![w] = Respond(h[w], 200, "none")]
    /\ UNCHANGED <<users, ledger_vars, access_vars, now, ticks, started, faulted>>

(* --------------------------- request_access --------------------------- *)
\* the user ids an admin's request may name: an account, and one that does not exist
TargetIds == {"u1", "u9"}
\* the lengths of the stripped reason a request may carry
ReasonLens == {9, 10}

\* the lookup with the two ids in each other's place
find_pending_swapped(admin_id, user_id) ==
    \E i \in 1..Len(access_requests) :
        /\ access_requests[i].admin_id = user_id
        /\ access_requests[i].user_id = admin_id
        /\ access_requests[i].status = "pending"

\* admin.py:66-70  find_one({admin_id, user_id, status: "pending"})
find_pending(admin_id, user_id) ==
    \E i \in 1..Len(access_requests) :
        /\ access_requests[i].admin_id = admin_id
        /\ access_requests[i].user_id = user_id
        /\ access_requests[i].status = "pending"

\* admin.py:57-73  the reason check, find_one of the user (the users collection
\* does not change), find_one of a pending request of this admin for this user
RequestAccessBegin(w, a, u, len) ==
    /\ MayStart(w, NumAccessRequests)
    /\ started' = started + 1
    /\ LET rec == [NewHandler EXCEPT !.op = "request_access", !.admin_id = a,
                                     !.user_id = u, !.reason_len = len]
       IN  h' = [h EXCEPT ![w] =
                IF len < 10 THEN Respond(rec, 400, "InvalidReason")
                ELSE IF u \notin UserIds THEN Respond(rec, 404, "AccountNotFound")
                ELSE IF find_pending(a, u) THEN Respond(rec, 409, "DuplicatePendingRequest")
                ELSE [rec EXCEPT !.pc = "ra_insert"]]
    /\ UNCHANGED <<users, ledger_vars, access_vars, audit_logs, now, ticks, faulted>>

\* admin.py:76-88  insert_one of the pending request
RequestAccessInsert(w) ==
    /\ h[w].pc = "ra_insert"
    /\ access_requests' = Append(access_requests,
                                 new_access_request(h[w].admin_id, h[w].user_id, now))
    /\ h' = [h EXCEPT ![w].pc = "ra_email", ![w].request_id = Len(access_requests) + 1]
    /\ UNCHANGED <<users, ledger_vars, token_log, audit_logs, now, ticks, started, faulted>>

\* admin.py:91-97  send_access_request_email: True, or False when mail.send raises
RequestAccessEmail(w) ==
    /\ h[w].pc = "ra_email"
    /\ \E sent \in BOOLEAN :
          h' = [h EXCEPT ![w] = [after_email(h[w], "ra_audit", sent)
                                     EXCEPT !.email_sent = sent]]
    /\ UNCHANGED <<users, ledger_vars, access_vars, audit_logs, now, ticks, started, faulted>>

\* admin.py:99-109  log_action, response
RequestAccessAudit(w) ==
    /\ h[w].pc = "ra_audit"
    /\ audit_logs' = log_action(h[w].admin_id, "admin", "request_account_access",
                                h[w].user_id,
                                [Details EXCEPT !.request_id = h[w].request_id])
    /\ h' = [h EXCEPT ![w] = Respond(h[w], 201, "none")]
    /\ UNCHANGED <<users, ledger_vars, access_vars, now, ticks, started, faulted>>

(* ---------------------------- grant_access ---------------------------- *)
\* who may send a grant / deny request: the routes carry no jwt_required, so
\* the account's owner, the requesting admin (request_access returns the
\* request_id to him) or somebody who is not logged in
Callers == {"u1", "a1", "anon"}

\* the status check that rejects only a request already granted
not_pending_only_granted(status) == status = "granted"

\* user.py:321, user.py:367  if req["status"] != "pending"
not_pending(status) == status # "pending"

\* user.py:317-330  find_one, the status check, the expiry check
GrantBegin(w, id, caller) ==
    /\ MayStart(w, NumAccessRequests)
    /\ started' = started + 1
    /\ LET rec == [NewHandler EXCEPT !.op = "grant", !.request_id = id,
                                     !.caller = caller]
       IN  h' = [h EXCEPT ![w] =
                IF id \notin 1..Len(access_requests)
                THEN Respond(rec, 404, "RequestNotFound")
                ELSE LET req == access_requests[id]
                         got == [rec EXCEPT !.admin_id = req.admin_id,
                                            !.user_id = req.user_id,
                                            !.saw_expired = (req.status = "pending"
                                                             /\ now > req.expires_at)]
                     IN  IF not_pending(req.status)
                         THEN Respond(got, 400, "RequestNotPending")
                         ELSE IF now > req.expires_at
                              THEN [got EXCEPT !.pc = "gr_expire"]
                              ELSE [got EXCEPT !.pc = "gr_update"]]
    /\ UNCHANGED <<users, ledger_vars, access_vars, audit_logs, now, ticks, faulted>>

\* user.py:326-330  update_one $set status expired, the 410 response
GrantExpire(w) ==
    /\ h[w].pc = "gr_expire"
    /\ access_requests' = [access_requests EXCEPT ![h[w].request_id].status = "expired"]
    /\ h' = [h EXCEPT ![w] = Respond(h[w], 410, "RequestExpired")]
    /\ UNCHANGED <<users, ledger_vars, token_log, audit_logs, now, ticks, started, faulted>>

\* user.py:333-343  generate_permission_token, update_one $set status granted,
\* permission_token, granted_at
GrantUpdate(w) ==
    /\ h[w].pc = "gr_update"
    /\ LET permission_token ==
               generate_permission_token(h[w].admin_id, h[w].user_id, h[w].request_id, now)
       IN  /\ token_log' = Append(token_log, permission_token)
           /\ access_requests' =
                  [access_requests EXCEPT ![h[w].request_id] =
                      [@ EXCEPT !.status = "granted",
                                !.permission_token = permission_token,
                                !.granted_at = now]]
           /\ h' = [h EXCEPT ![w].pc = "gr_email", ![w].token = permission_token]
    /\ UNCHANGED <<users, ledger_vars, audit_logs, now, ticks, started, faulted>>

\* user.py:346-350  find_one of admin and user, send_access_decision_email
GrantEmail(w) ==
    /\ h[w].pc = "gr_email"
    /\ \E sent \in BOOLEAN : h' = [h EXCEPT ![w] = after_email(h[w], "gr_audit", sent)]
    /\ UNCHANGED <<users, ledger_vars, access_vars, audit_logs, now, ticks, started, faulted>>

\* user.py:352-357  log_action keyed by the account owner, response
GrantAudit(w) ==
    /\ h[w].pc = "gr_audit"
    /\ audit_logs' = log_action(h[w].user_id, "user", "grant_admin_access", "none",
                                [Details EXCEPT !.request_id = h[w].request_id])
    /\ h' = [h EXCEPT ![w] = Respond(h[w], 200, "none")]
    /\ UNCHANGED <<users, ledger_vars, access_vars, now, ticks, started, faulted>>

(* ----------------------------- deny_access ---------------------------- *)
\* user.py:363-368  find_one, the status check (there is no expiry check)
DenyBegin(w, id, caller) ==
    /\ MayStart(w, NumAccessRequests)
    /\ started' = started + 1
    /\ LET rec == [NewHandler EXCEPT !.op = "deny", !.request_id = id,
                                     !.caller = caller]
       IN  h' = [h EXCEPT ![w] =
                IF id \notin 1..Len(access_requests)
                THEN Respond(rec, 404, "RequestNotFound")
                ELSE LET req == access_requests[id]
                         got == [rec EXCEPT !.admin_id = req.admin_id,
                                            !.user_id = req.user_id,
                                            !.saw_expired = (req.status = "pending"
                                                             /\ now > req.expires_at)]
                     IN  IF not_pending(req.status)
                         THEN Respond(got, 400, "RequestNotPending")
                         ELSE [got EXCEPT !.pc = "dn_update"]]
    /\ UNCHANGED <<users, ledger_vars, access_vars, audit_logs, now, ticks, faulted>>

\* an update that denies every request for the account, not the one request
DenyUpdate_every_request_of_account(w) ==
    /\ h[w].pc = "dn_update"
    /\ access_requests' =
           [i \in 1..Len(access_requests) |->
               IF access_requests[i].user_id = h[w].user_id
               THEN [access_requests[i] EXCEPT !.status = "denied", !.denied_at = now]
               ELSE access_requests[i]]
    /\ h' = [h EXCEPT ![w].pc = "dn_email"]
    /\ UNCHANGED <<users, ledger_vars, token_log, audit_logs, now, ticks, started, faulted>>

\* user.py:370-373  update_one $set status denied, denied_at
DenyUpdate(w) ==
    /\ h[w].pc = "dn_update"
    /\ access_requests' =
           [access_requests EXCEPT ![h[w].request_id] =
               [@ EXCEPT !.status = "denied", !.denied_at = now]]
    /\ h' = [h EXCEPT ![w].pc = "dn_email"]
    /\ UNCHANGED <<users, ledger_vars, token_log, audit_logs, now, ticks, started, faulted>>

\* user.py:375-379  find_one of admin and user, send_access_decision_email
DenyEmail(w) ==
    /\ h[w].pc = "dn_email"
    /\ \E sent \in BOOLEAN : h' = [h EXCEPT ![w] = after_email(h[w], "dn_audit", sent)]
    /\ UNCHANGED <<users, ledger_vars, access_vars, audit_logs, now, ticks, started, faulted>>

\* user.py:381-383  log_action keyed by the account owner, response
DenyAudit(w) ==
    /\ h[w].pc = "dn_audit"
    /\ audit_logs' = log_action(h[w].user_id, "user", "deny_admin_access", "none",
                                [Details EXCEPT !.request_id = h[w].request_id])
    /\ h' = [h EXCEPT ![w] = Respond(h[w], 200, "none")]
    /\ UNCHANGED <<users, ledger_vars, access_vars, now, ticks, started, faulted>>

(* ------------------------- check_access_status ------------------------ *)
\* admin.py:112-132  find_one({_id, admin_id}); the response carries the stored
\* status, and the stored permission_token when that status is granted.  The
\* handler makes no write.
CheckAccessStatus(w, a, id) ==
    /\ MayStart(w, NumAccessRequests)
    /\ started' = started + 1
    /\ LET rec == [NewHandler EXCEPT !.op = "status", !.admin_id = a,
                                     !.request_id = id]
       IN  h' = [h EXCEPT ![w] =
                IF id \notin 1..Len(access_requests)
                THEN Respond(rec, 404, "RequestNotFound")
                ELSE LET req == access_requests[id]
                     IN  IF req.admin_id # a
                         THEN Respond(rec, 404, "RequestNotFound")
                         ELSE Respond([rec EXCEPT
                                  !.user_id = req.user_id,
                                  !.req_status = req.status,
                                  !.saw_expired = (req.status = "pending"
                                                   /\ now > req.expires_at),
                                  !.token = IF req.status = "granted"
                                            THEN req.permission_token
                                            ELSE NoToken],
                                  200, "none")]
    /\ UNCHANGED <<users, ledger_vars, access_vars, audit_logs, now, ticks, faulted>>

(* -------------------------- view_user_account ------------------------- *)
\* a token signed with another key: the payload of tok, tampered with or forged
forged(tok) == [tok EXCEPT !.key = "forged"]

\* the tokens an admin may send: none, any token ever generated, or a forgery
PresentableTokens ==
    {NoToken} \cup {token_log[i] : i \in 1..Len(token_log)}
              \cup {forged(token_log[i]) : i \in 1..Len(token_log)}

\* the lookup without its status filter: find_one({_id: request_id})
find_any_status(request_id) ==
    request_id \in 1..Len(access_requests)

\* admin.py:155-158  find_one({_id: request_id, status: "granted"})
find_granted(request_id) ==
    /\ request_id \in 1..Len(access_requests)
    /\ access_requests[request_id].status = "granted"

\* admin.py:139-172  the header, verify_permission_token, the identity check, the
\* live status lookup, then the reads of the account and its transactions
ViewBegin(w, a, u, tok) ==
    /\ MayStart(w, NumAccessRequests)
    /\ started' = started + 1
    /\ LET rec == [NewHandler EXCEPT !.op = "view", !.admin_id = a, !.user_id = u,
                                     !.token = tok, !.request_id = tok.request_id]
       IN  h' = [h EXCEPT ![w] =
                IF tok = NoToken THEN Respond(rec, 401, "TokenRequired")
                ELSE IF ~verify_permission_token(tok, now)
                     THEN Respond(rec, 401, "TokenInvalid")
                ELSE IF tok.admin_id # a \/ tok.user_id # u
                     THEN Respond(rec, 403, "TokenMismatch")
                ELSE IF ~find_granted(tok.request_id)
                     THEN Respond(rec, 403, "AccessRevoked")
                ELSE IF u \notin UserIds THEN Respond(rec, 404, "AccountNotFound")
                ELSE [rec EXCEPT !.pc = "vw_audit", !.balance_read = balance[u]]]
    /\ UNCHANGED <<users, ledger_vars, access_vars, audit_logs, now, ticks, faulted>>

\* a view whose audit entry leaves out the request id
ViewAudit_without_request_id(w) ==
    /\ h[w].pc = "vw_audit"
    /\ audit_logs' = log_action(h[w].admin_id, "admin", "viewed_user_account",
                                h[w].user_id, Details)
    /\ h' = [h EXCEPT ![w] = Respond(h[w], 200, "none")]
    /\ UNCHANGED <<users, ledger_vars, access_vars, now, ticks, started, faulted>>

\* admin.py:174-197  log_action, the snapshot response
ViewAudit(w) ==
    /\ h[w].pc = "vw_audit"
    /\ audit_logs' = log_action(h[w].admin_id, "admin", "viewed_user_account",
                                h[w].user_id,
                                [Details EXCEPT !.request_id = h[w].request_id])
    /\ h' = [h EXCEPT ![w] = Respond(h[w], 200, "none")]
    /\ UNCHANGED <<users, ledger_vars, access_vars, now, ticks, started, faulted>>

(* ----------------------------- fraud check ---------------------------- *)
\* ml.py:16-25  count_documents of the caller's transactions of today
FraudCheckBegin(w, u, amt) ==
    /\ MayStart(w, NumLedgerRequests)
    /\ started' = started + 1
    /\ h' = [h EXCEPT ![w] = [NewHandler EXCEPT !.op = "fraud_check", !.pc = "fc_user",
                                                !.user_id = u, !.amount = amt,
                                                !.ctx_count = count_today(u, now)]]
    /\ UNCHANGED <<users, ledger_vars, access_vars, audit_logs, now, ticks, faulted>>

\* ml.py:27-44  find_one of the caller, predict_fraud, the 200 response
FraudCheckScore(w, model) ==
    /\ h[w].pc = "fc_user"
    /\ \E fraud_result \in predict_fraud_outcomes(model, h[w].amount, hour(now),
                              balance[h[w].user_id], h[w].ctx_count) :
           h' = [h EXCEPT ![w] = [Respond(h[w], 200, "none") EXCEPT
                                     !.is_fraud = fraud_result.is_fraud,
                                     !.fraud_score = fraud_result.fraud_score,
                                     !.model = model,
                                     !.ctx_hour = hour(now),
                                     !.balance_read = balance[h[w].user_id]]]
    /\ UNCHANGED <<users, ledger_vars, access_vars, audit_logs, now, ticks, started, faulted>>

(* --------------------------- loan eligibility ------------------------- *)
\* a rubric that gives the full age points only after more than 180 days
rule_based_loan_score_after_180(avg_balance, account_age_days, txn_count, loan_amount) ==
    LET score ==
            (IF 10 * avg_balance >= 3 * loan_amount THEN 30 ELSE 0)
          + (IF account_age_days > 180 THEN 25
             ELSE IF account_age_days >= 90 THEN 15 ELSE 0)
          + (IF txn_count >= 10 THEN 25
             ELSE IF txn_count >= 5 THEN 15 ELSE 0)
          + (IF loan_amount <= avg_balance * 3 THEN 20
             ELSE IF loan_amount <= avg_balance * 6 THEN 10 ELSE 0)
    IN  [eligible |-> score >= 60, score |-> score]

\* loan_eligibility.py:8-59  _rule_based_loan_score (balance >= loan_amount *
\* 0.3 is written in tenths)
rule_based_loan_score(avg_balance, account_age_days, txn_count, loan_amount) ==
    LET score ==
            (IF 10 * avg_balance >= 3 * loan_amount THEN 30 ELSE 0)
          + (IF account_age_days >= 180 THEN 25
             ELSE IF account_age_days >= 90 THEN 15 ELSE 0)
          + (IF txn_count >= 10 THEN 25
             ELSE IF txn_count >= 5 THEN 15 ELSE 0)
          + (IF loan_amount <= avg_balance * 3 THEN 20
             ELSE IF loan_amount <= avg_balance * 6 THEN 10 ELSE 0)
    IN  [eligible |-> score >= 60, score |-> score]

\* the aggregates loan_eligibility may compute from an account's history:
\* average balances around 30 %, a sixth and a third of a request of 100, ages
\* and monthly counts around the steps of the rubric
LoanAmounts == {0, 100}
AverageBalances == {0, 16, 17, 29, 30, 33, 34}
AccountAges == {0, 89, 90, 179, 180}
MonthlyCounts == {0, 4, 5, 9, 10}

\* ml.py:51-60  the amount check, find_one of the caller
LoanBegin(w, u, amt) ==
    /\ MayStart(w, NumLedgerRequests)
    /\ started' = started + 1
    /\ LET rec == [NewHandler EXCEPT !.op = "loan_eligibility", !.user_id = u,
                                     !.amount = amt]
       IN  h' = [h EXCEPT ![w] =
                IF amt <= 0 THEN Respond(rec, 400, "InvalidAmount")
                ELSE [rec EXCEPT !.pc = "ln_history"]]
    /\ UNCHANGED <<users, ledger_vars, access_vars, audit_logs, now, ticks, faulted>>

\* ml.py:63-96  the aggregates of the account's history (the average of its
\* balance_after values, its age in days, its transactions of the last 30
\* days), predict_loan_eligibility without loan_model.pkl, the 200 response
LoanScore(w, avg, age, count) ==
    /\ h[w].pc = "ln_history"
    /\ LET result == rule_based_loan_score(avg, age, count, h[w].amount)
       IN  h' = [h EXCEPT ![w] = [Respond(h[w], 200, "none") EXCEPT
                                     !.average_balance = avg,
                                     !.account_age_days = age,
                                     !.monthly_transaction_count = count,
                                     !.eligible = result.eligible,
                                     !.score = result.score]]
    /\ UNCHANGED <<users, ledger_vars, access_vars, audit_logs, now, ticks, started, faulted>>

(* ------------------------------ register ------------------------------ *)
\* the e-mail addresses a register request may carry
Emails == {"amy@x", "Amy@x", "bob@x"}
\* the numbers generate_account_number may return: two of the 10^10
GeneratedNumbers == {"ACC1", "ACC2"}

\* str.lower()
lower(email) == IF email = "Amy@x" THEN "amy@x" ELSE email

\* auth.py:34  find_one({"email": data["email"]})
find_by_email(email) == \E i \in 1..Len(users) : users[i].email = email

\* auth.py:27-35  the required fields, find_one by the e-mail as it was sent
RegisterBegin(w, email, complete) ==
    /\ MayStart(w, NumRegistrations)
    /\ started' = started + 1
    /\ LET rec == [NewHandler EXCEPT !.op = "register", !.email = email]
       IN  h' = [h EXCEPT ![w] =
                IF ~complete THEN Respond(rec, 400, "MissingFields")
                ELSE IF find_by_email(email) THEN Respond(rec, 409, "EmailTaken")
                ELSE [rec EXCEPT !.pc = "rg_insert"]]
    /\ UNCHANGED <<users, ledger_vars, access_vars, audit_logs, now, ticks, faulted>>

\* auth.py:37-57  the document with the lower-cased e-mail and the number
\* generate_account_number draws at random, insert_one, the 201 response
RegisterInsert(w, acct) ==
    /\ h[w].pc = "rg_insert"
    /\ users' = Append(users, user_doc(lower(h[w].email), acct))
    /\ h' = [h EXCEPT ![w] = [Respond(h[w], 201, "none") EXCEPT !.account_number = acct]]
    /\ UNCHANGED <<ledger_vars, access_vars, audit_logs, now, ticks, started, faulted>>

(* -------------------------------- login ------------------------------- *)
\* the number of failed attempts at which login locks the account
LOCK_AT == 5

\* the e-mail addresses a login request may carry: a registered one in another
\* letter case, and one nobody registered
LoginEmails == {"Amy@x", "zed@x"}

\* auth.py:68  find_one({"email": data["email"].lower()}): the position of the
\* first document with that e-mail, 0 if there is none
find_user_by_email(email) ==
    IF \E i \in 1..Len(users) : users[i].email = email
    THEN CHOOSE i \in 1..Len(users) :
            /\ users[i].email = email
            /\ \A j \in 1..(i - 1) : users[j].email # email
    ELSE 0

\* auth.py:73  if user.get("is_locked")
locked_out(user) == user.is_locked

\* auth.py:63-87  the required fields, find_one by the lower-cased e-mail, the
\* lock check, check_password (the model's accounts are all active)
LoginBegin(w, email, password_ok) ==
    /\ MayStart(w, NumLogins)
    /\ started' = started + 1
    /\ LET rec == [NewHandler EXCEPT !.op = "login", !.email = email]
           i == find_user_by_email(lower(email))
       IN  h' = [h EXCEPT ![w] =
                IF i = 0 THEN Respond(rec, 401, "InvalidCredentials")
                ELSE IF locked_out(users[i])
                     THEN Respond([rec EXCEPT !.doc = i], 403, "AccountLocked")
                ELSE IF ~password_ok
                     THEN [rec EXCEPT !.pc = "lg_fail", !.doc = i,
                                      !.attempts = users[i].failed_login_attempts + 1]
                ELSE [rec EXCEPT !.pc = "lg_reset", !.doc = i]]
    /\ UNCHANGED <<users, ledger_vars, access_vars, audit_logs, now, ticks, faulted>>

\* auth.py:78-84  update_one $set failed_login_attempts (and is_locked at 5 or
\* more), the 401 response
LoginFail(w) ==
    /\ h[w].pc = "lg_fail"
    /\ users' = [users EXCEPT ![h[w].doc] =
                    [@ EXCEPT !.failed_login_attempts = h[w].attempts,
                              !.is_locked = IF h[w].attempts >= LOCK_AT THEN TRUE ELSE @,
                              !.wrong_since_login = @ + 1]]
    /\ h' = [h EXCEPT ![w] = Respond(h[w], 401, "InvalidCredentials")]
    /\ UNCHANGED <<ledger_vars, access_vars, audit_logs, now, ticks, started, faulted>>

\* auth.py:90-104  update_one $set failed_login_attempts 0, create_access_token,
\* the 200 response carrying the session token
LoginReset(w) ==
    /\ h[w].pc = "lg_reset"
    /\ users' = [users EXCEPT ![h[w].doc] =
                    [@ EXCEPT !.failed_login_attempts = 0, !.wrong_since_login = 0]]
    /\ h' = [h EXCEPT ![w] = [Respond(h[w], 200, "none") EXCEPT !.session = TRUE]]
    /\ UNCHANGED <<ledger_vars, access_vars, audit_logs, now, ticks, started, faulted>>

\* auth.py:124-136  the fields of an admin document the model keeps
admin_doc(email) ==
    [email |-> email, account_number |-> "none", role |-> "admin",
     failed_login_attempts |-> 0, is_locked |-> FALSE, wrong_since_login |-> 0]

\* auth.py:110-122  the required fields, the admin secret, find_one by the
\* e-mail as it was sent
RegisterAdminBegin(w, email, complete, secret_ok) ==
    /\ MayStart(w, NumRegistrations)
    /\ started' = started + 1
    /\ LET rec == [NewHandler EXCEPT !.op = "register_admin", !.email = email]
       IN  h' = [h EXCEPT ![w] =
                IF ~complete THEN Respond(rec, 400, "MissingFields")
                ELSE IF ~secret_ok THEN Respond(rec, 403, "InvalidAdminSecret")
                ELSE IF find_by_email(email) THEN Respond(rec, 409, "EmailTaken")
                ELSE [rec EXCEPT !.pc = "rga_insert"]]
    /\ UNCHANGED <<users, ledger_vars, access_vars, audit_logs, now, ticks, faulted>>

\* auth.py:124-142  the document with the lower-cased e-mail, insert_one, 201
RegisterAdminInsert(w) ==
    /\ h[w].pc = "rga_insert"
    /\ users' = Append(users, admin_doc(lower(h[w].email)))
    /\ h' = [h EXCEPT ![w] = Respond(h[w], 201, "none")]
    /\ UNCHANGED <<ledger_vars, access_vars, audit_logs, now, ticks, started, faulted>>

(* ------------------------------- faults ------------------------------- *)
\* the steps whose database operation may raise; the e-mail steps catch their
\* own exceptions (notification.py) and so never abort the handler
FaultPoints ==
    {"dep_update", "dep_insert", "dep_audit",
     "wd_score", "wd_update", "wd_insert", "wd_audit",
     "tr_recipient", "tr_debit", "tr_credit", "tr_insert_debit",
     "tr_insert_credit", "tr_audit",
     "ra_insert", "ra_audit", "gr_expire", "gr_update", "gr_audit",
     "dn_update", "dn_audit", "vw_audit", "rg_insert",
     "fc_user", "rga_insert", "lg_fail", "lg_reset",
     "ln_history"}

\* the pending database operation of request r raises: no handler catches it,
\* Flask answers 500, and every write already made stays
Fault(w) ==
    /\ h[w].pc \in FaultPoints
    /\ h' = [h EXCEPT ![w] = [Respond(h[w], 500, "InternalError") EXCEPT !.pc = "aborted"]]
    /\ UNCHANGED <<users, ledger_vars, access_vars, audit_logs, now, ticks, started>>
    /\ faulted' = TRUE

(* ------------------------------- clock -------------------------------- *)
Tick(d) ==
    /\ ticks < MaxTicks
    /\ now' = now + d
    /\ ticks' = ticks + 1
    /\ UNCHANGED <<users, ledger_vars, access_vars, audit_logs, started, faulted, h>>

\* here predict_fraud takes the branch of the repository as it is, which holds
\* no fraud_model.pkl
LedgerNext ==
    \/ \E w \in Workers, u \in UserIds, amt \in Amounts : DepositBegin(w, u, amt)
    \/ \E w \in Workers : DepositUpdate(w)
    \/ \E w \in Workers : DepositInsert(w)
    \/ \E w \in Workers : DepositEmail(w)
    \/ \E w \in Workers : DepositAudit(w)
    \/ \E w \in Workers, u \in UserIds, amt \in Amounts : WithdrawBegin(w, u, amt)
    \/ \E w \in Workers : WithdrawScore(w, "rule_based")
    \/ \E w \in Workers : WithdrawUpdate(w)
    \/ \E w \in Workers : WithdrawInsert(w)
    \/ \E w \in Workers : WithdrawEmail(w)
    \/ \E w \in Workers : WithdrawAudit(w)
    \/ \E w \in Workers, u \in UserIds, to \in ToAccounts, amt \in Amounts :
          TransferBegin(w, u, to, amt)
    \/ \E w \in Workers : TransferFindRecipient(w)
    \/ \E w \in Workers : TransferDebit(w)
    \/ \E w \in Workers : TransferCredit(w)
    \/ \E w \in Workers : TransferInsertDebit(w)
    \/ \E w \in Workers : TransferInsertCredit(w)
    \/ \E w \in Workers : TransferEmail(w)
    \/ \E w \in Workers : TransferAudit(w)
    \/ \E w \in Workers : Fault(w)
    \/ \E d \in LedgerTickSteps : Tick(d)

\* here the account's owner sends every grant / deny request
AccessNext ==
    \/ \E w \in Workers, a \in AdminIds, u \in TargetIds, len \in ReasonLens :
          RequestAccessBegin(w, a, u, len)
    \/ \E w \in Workers : RequestAccessInsert(w)
    \/ \E w \in Workers : RequestAccessEmail(w)
    \/ \E w \in Workers : RequestAccessAudit(w)
    \/ \E w \in Workers, id \in 1..(Len(access_requests) + 1) : GrantBegin(w, id, "u1")
    \/ \E w \in Workers : GrantExpire(w)
    \/ \E w \in Workers : GrantUpdate(w)
    \/ \E w \in Workers : GrantEmail(w)
    \/ \E w \in Workers : GrantAudit(w)
    \/ \E w \in Workers, id \in 1..(Len(access_requests) + 1) : DenyBegin(w, id, "u1")
    \/ \E w \in Workers : DenyUpdate(w)
    \/ \E w \in Workers : DenyEmail(w)
    \/ \E w \in Workers : DenyAudit(w)
    \/ \E w \in Workers, a \in AdminIds, u \in TargetIds, tok \in PresentableTokens :
          ViewBegin(w, a, u, tok)
    \/ \E w \in Workers : ViewAudit(w)
    \/ \E w \in Workers : Fault(w)
    \/ \E d \in TickSteps : Tick(d)

\* the decisions on the requests pending at the start, sent by anybody, and the
\* admins' reads of their status
DecideNext ==
    \/ \E w \in Workers, id \in 1..(Len(access_requests) + 1), caller \in Callers :
          GrantBegin(w, id, caller)
    \/ \E w \in Workers : GrantExpire(w)
    \/ \E w \in Workers : GrantUpdate(w)
    \/ \E w \in Workers : GrantEmail(w)
    \/ \E w \in Workers : GrantAudit(w)
    \/ \E w \in Workers, id \in 1..(Len(access_requests) + 1), caller \in Callers :
          DenyBegin(w, id, caller)
    \/ \E w \in Workers : DenyUpdate(w)
    \/ \E w \in Workers : DenyEmail(w)
    \/ \E w \in Workers : DenyAudit(w)
    \/ \E w \in Workers, a \in AdminIds, id \in 1..(Len(access_requests) + 1) :
          CheckAccessStatus(w, a, id)
    \/ \E w \in Workers : Fault(w)
    \/ \E d \in TickSteps : Tick(d)

\* withdrawals from account u1, scored by any branch of predict_fraud
WithdrawNext ==
    \/ \E w \in Workers, amt \in ScenarioAmounts : WithdrawBegin(w, "u1", amt)
    \/ \E w \in Workers, model \in FraudModels : WithdrawScore(w, model)
    \/ \E w \in Workers : WithdrawUpdate(w)
    \/ \E w \in Workers : WithdrawInsert(w)
    \/ \E w \in Workers : WithdrawEmail(w)
    \/ \E w \in Workers : WithdrawAudit(w)
    \/ \E w \in Workers : Fault(w)
    \/ \E d \in LedgerTickSteps : Tick(d)

\* registration starts from an empty users collection
RegisterInit ==
    /\ users = <<>>
    /\ balance = [u \in UserIds |-> 0]
    /\ initial_balance = balance
    /\ transactions = <<>>
    /\ audit_logs = <<>>
    /\ access_requests = <<>>
    /\ token_log = <<>>
    /\ now = StartTime
    /\ ticks = 0
    /\ started = 0
    /\ faulted = FALSE
    /\ h = [w \in Workers |-> NewHandler]

RegisterNext ==
    \/ \E w \in Workers, email \in Emails, complete \in BOOLEAN :
          RegisterBegin(w, email, complete)
    \/ \E w \in Workers, acct \in GeneratedNumbers : RegisterInsert(w, acct)
    \/ \E w \in Workers, email \in Emails, complete \in BOOLEAN, secret_ok \in BOOLEAN :
          RegisterAdminBegin(w, email, complete, secret_ok)
    \/ \E w \in Workers : RegisterAdminInsert(w)
    \/ \E w \in Workers : Fault(w)

LedgerSpec == LedgerInit /\ [][LedgerNext]_vars

RegisterSpec == RegisterInit /\ [][RegisterNext]_vars

\* the amounts a fraud check is asked about: around 0.8 of the scenario
\* balances, around the absolute ceiling, and the whole of account u2
ScoreAmounts == {InitBalance, 400, 401, 1200, 1201, HUGE_AMOUNT, HUGE_AMOUNT + 1}

\* fraud checks by both accounts, by the rule-based branch, next to a
\* withdrawal that empties account u2
ScoreNext ==
    \/ \E w \in Workers, u \in UserIds, amt \in ScoreAmounts : FraudCheckBegin(w, u, amt)
    \/ \E w \in Workers : FraudCheckScore(w, "rule_based")
    \/ \E w \in Workers : WithdrawBegin(w, "u2", InitBalance)
    \/ \E w \in Workers : WithdrawScore(w, "rule_based")
    \/ \E w \in Workers : WithdrawUpdate(w)
    \/ \E w \in Workers : WithdrawInsert(w)
    \/ \E w \in Workers : WithdrawEmail(w)
    \/ \E w \in Workers : WithdrawAudit(w)
    \/ \E w \in Workers : Fault(w)
    \/ \E d \in LedgerTickSteps : Tick(d)

ScoreSpec == ScenarioInit /\ [][ScoreNext]_vars

\* logins start after 0..4 wrong-password attempts on the account of amy@x,
\* made one after the other since its last successful login
LoginInit ==
    /\ \E n \in 0..(LOCK_AT - 1) :
          users = [InitUsers EXCEPT ![1] = [@ EXCEPT !.failed_login_attempts = n,
                                                     !.wrong_since_login = n]]
    /\ balance = [u \in UserIds |-> InitBalance]
    /\ initial_balance = balance
    /\ transactions = <<>>
    /\ audit_logs = <<>>
    /\ access_requests = <<>>
    /\ token_log = <<>>
    /\ now = StartTime
    /\ ticks = 0
    /\ started = 0
    /\ faulted = FALSE
    /\ h = [w \in Workers |-> NewHandler]

LoginNext ==
    \/ \E w \in Workers, email \in LoginEmails, password_ok \in BOOLEAN :
          LoginBegin(w, email, password_ok)
    \/ \E w \in Workers : LoginFail(w)
    \/ \E w \in Workers : LoginReset(w)
    \/ \E w \in Workers : Fault(w)

LoginSpec == LoginInit /\ [][LoginNext]_vars

\* loan eligibility requests by both accounts
LoanNext ==
    \/ \E w \in Workers, u \in UserIds, amt \in LoanAmounts : LoanBegin(w, u, amt)
    \/ \E w \in Workers, avg \in AverageBalances, age \in AccountAges,
          count \in MonthlyCounts : LoanScore(w, avg, age, count)
    \/ \E w \in Workers : Fault(w)

LoanSpec == LedgerInit /\ [][LoanNext]_vars

\* transfers only: no deposit and no withdrawal is ever requested
TransferNext ==
    \/ \E w \in Workers, u \in UserIds, to \in ToAccounts, amt \in Amounts :
          TransferBegin(w, u, to, amt)
    \/ \E w \in Workers : TransferFindRecipient(w)
    \/ \E w \in Workers : TransferDebit(w)
    \/ \E w \in Workers : TransferCredit(w)
    \/ \E w \in Workers : TransferInsertDebit(w)
    \/ \E w \in Workers : TransferInsertCredit(w)
    \/ \E w \in Workers : TransferEmail(w)
    \/ \E w \in Workers : TransferAudit(w)
    \/ \E w \in Workers : Fault(w)

TransferSpec == LedgerInit /\ [][TransferNext]_vars

\* the ledger and access delegation side by side: account u1 moves one unit
\* of money while admins ask for access to it and its owner decides
BankNext ==
    \/ \E w \in Workers : DepositBegin(w, "u1", 1)
    \/ \E w \in Workers : DepositUpdate(w)
    \/ \E w \in Workers : DepositInsert(w)
    \/ \E w \in Workers : DepositEmail(w)
    \/ \E w \in Workers : DepositAudit(w)
    \/ \E w \in Workers : WithdrawBegin(w, "u1", 1)
    \/ \E w \in Workers : WithdrawScore(w, "rule_based")
    \/ \E w \in Workers : WithdrawUpdate(w)
    \/ \E w \in Workers : WithdrawInsert(w)
    \/ \E w \in Workers : WithdrawEmail(w)
    \/ \E w \in Workers : WithdrawAudit(w)
    \/ \E w \in Workers : TransferBegin(w, "u1", "ACC2", 1)
    \/ \E w \in Workers : TransferFindRecipient(w)
    \/ \E w \in Workers : TransferDebit(w)
    \/ \E w \in Workers : TransferCredit(w)
    \/ \E w \in Workers : TransferInsertDebit(w)
    \/ \E w \in Workers : TransferInsertCredit(w)
    \/ \E w \in Workers : TransferEmail(w)
    \/ \E w \in Workers : TransferAudit(w)
    \/ \E w \in Workers, a \in AdminIds : RequestAccessBegin(w, a, "u1", 10)
    \/ \E w \in Workers : RequestAccessInsert(w)
    \/ \E w \in Workers : RequestAccessEmail(w)
    \/ \E w \in Workers : RequestAccessAudit(w)
    \/ \E w \in Workers, id \in 1..Len(access_requests) : GrantBegin(w, id, "u1")
    \/ \E w \in Workers : GrantExpire(w)
    \/ \E w \in Workers : GrantUpdate(w)
    \/ \E w \in Workers : GrantEmail(w)
    \/ \E w \in Workers : GrantAudit(w)
    \/ \E w \in Workers, id \in 1..Len(access_requests) : DenyBegin(w, id, "u1")
    \/ \E w \in Workers : DenyUpdate(w)
    \/ \E w \in Workers : DenyEmail(w)
    \/ \E w \in Workers : DenyAudit(w)
    \/ \E w \in Workers : Fault(w)
    \/ Tick(REQUEST_TTL + 1)

BankSpec == AccessInit /\ [][BankNext]_vars

WithdrawSpec == ScenarioInit /\ [][WithdrawNext]_vars

DecideSpec == AccessInit /\ [][DecideNext]_vars

AccessSpec == AccessInit /\ [][AccessNext]_vars

(* ======================= properties of the ledger ===================== *)
RECURSIVE SumWithdrawn(_, _)
\* sum of the amounts of the debit records withdraw wrote for u (a transfer's
\* debit record names the other account in related_account)
SumWithdrawn(s, u) ==
    IF s = <<>> THEN 0
    ELSE (IF s[1].user_id = u /\ s[1].type = "debit" /\ s[1].related_account = ""
          THEN s[1].amount ELSE 0)
         + SumWithdrawn(Tail(s), u)

\* C1: ledger conservation.  Once every handler has completed and no database
\* operation has raised, each account's balance is its initial balance plus its
\* credit records minus its debit records.
C1_LedgerConservation ==
    (AllQuiet /\ ~faulted) =>
        \A u \in UserIds : balance[u] = initial_balance[u] + Credits(u) - Debits(u)

\* C2: on an account that received no credit, the withdrawals that succeeded
\* (recorded a debit and answered 200) never sum to more than the balance the
\* account had.
C2_WithdrawalsWithinBalance ==
    (AllQuiet /\ ~faulted) =>
        \A u \in UserIds :
            Credits(u) = 0 => SumWithdrawn(transactions, u) <= initial_balance[u]

\* C3: transfer atomicity.  In every state, a transfer (running, completed or
\* aborted by a fault) has made all four of its writes (two balance updates, two
\* Transaction records) or none of them.
C3_TransferAtomicity ==
    \A w \in Workers : h[w].op = "transfer" => h[w].writes \in {0, 4}

Accepting(w) == ~InFlight(w) /\ \A v \in Workers : v < w => InFlight(v)

\* the next step is worker w starting the handler of operation op
Begins(w, op) == started' = started + 1 /\ Accepting(w) /\ h'[w].op = op

TokensFor(id) == Cardinality({k \in 1..Len(token_log) : token_log[k].request_id = id})

IsDecide(w) == h[w].op \in {"grant", "deny"}

\* C4: view_user_account gets past its checks only if, at that time, the token
\* is signed with the permission secret and unexpired, names the calling admin
\* and the requested account, and its AccessRequest has status granted; a token
\* that passes the first two checks while the request is not granted is answered
\* with the access-revoked error.
C4_ViewNeedsLiveGrant ==
    [][\A w \in Workers :
          Begins(w, "view") =>
             LET v == h'[w]
                 tok == v.token
                 valid == tok.key = "PERMISSION_SECRET" /\ tok.exp > now
                 bound == tok.admin_id = v.admin_id /\ tok.user_id = v.user_id
                 granted == /\ tok.request_id \in 1..Len(access_requests)
                            /\ access_requests[tok.request_id].status = "granted"
             IN  /\ v.pc = "vw_audit" => (valid /\ bound /\ granted)
                 /\ (valid /\ bound /\ ~granted) =>
                        (v.pc = "done" /\ v.status = 403 /\ v.error = "AccessRevoked")
      ]_vars

\* C4 witness: a view presenting a properly signed, still unexpired token of the
\* right admin and account was answered access-revoked, the token's request being
\* denied or expired.
C4_Witness ==
    \E w \in Workers :
        /\ h[w].op = "view" /\ h[w].error = "AccessRevoked"
        /\ h[w].token.key = "PERMISSION_SECRET" /\ h[w].token.exp > now
        /\ h[w].token.admin_id = h[w].admin_id /\ h[w].token.user_id = h[w].user_id
        /\ access_requests[h[w].token.request_id].status \in {"denied", "expired"}

\* C5: an AccessRequest's status changes only away from pending: once granted,
\* denied or expired it never changes again.
C5_StatusOnlyLeavesPending ==
    [][\A i \in 1..Len(access_requests) :
          access_requests'[i].status # access_requests[i].status =>
              /\ access_requests[i].status = "pending"
              /\ access_requests'[i].status \in {"granted", "denied", "expired"}
      ]_vars

\* C6: of two completed decide calls (grant or deny) on the same AccessRequest,
\* neither of which found it past its expiry, at most one succeeded, and the
\* other was answered request-not-pending.
C6_ExactlyOneDecides ==
    \A w1, w2 \in Workers :
        (/\ w1 # w2
         /\ IsDecide(w1) /\ IsDecide(w2)
         /\ h[w1].request_id = h[w2].request_id
         /\ h[w1].pc = "done" /\ h[w2].pc = "done"
         /\ ~h[w1].saw_expired /\ ~h[w2].saw_expired
         /\ h[w1].status = 200)
        => h[w2].error = "RequestNotPending"

\* C7: at most one pending AccessRequest exists per (admin, account) pair.
C7_OnePendingPerPair ==
    \A i, j \in 1..Len(access_requests) :
        (/\ i # j
         /\ access_requests[i].admin_id = access_requests[j].admin_id
         /\ access_requests[i].user_id = access_requests[j].user_id
         /\ access_requests[i].status = "pending")
        => access_requests[j].status # "pending"

\* C8: exactly one token has been generated for every AccessRequest that was
\* ever set to granted (its granted_at is set), and none for any other.
C8_OneTokenPerGrant ==
    \A i \in 1..Len(access_requests) :
        TokensFor(i) = IF access_requests[i].granted_at # NoTime THEN 1 ELSE 0

\* C10: a decide call (grant or deny) that found its AccessRequest pending and
\* past expires_at ends with the expired error and without a token.
C10_DecideOnExpiredFails ==
    \A w \in Workers :
        (IsDecide(w) /\ h[w].saw_expired /\ h[w].pc = "done")
        => (h[w].error = "RequestExpired" /\ h[w].token = NoToken)

\* C11: the status of an AccessRequest becomes granted or denied only in a
\* step of a grant / deny handler whose caller is the owner of the request's
\* target account.
C11_OnlyOwnerDecides ==
    [][\A i \in 1..Len(access_requests) :
          (/\ access_requests'[i].status # access_requests[i].status
           /\ access_requests'[i].status \in {"granted", "denied"})
          => \E w \in Workers :
                 /\ h[w].pc \in {"gr_update", "dn_update"}
                 /\ h'[w].pc # h[w].pc
                 /\ h[w].request_id = i
                 /\ h[w].caller = access_requests[i].user_id
      ]_vars

C15_DecideNotPendingChangesNothing ==
    [][\A w \in Workers :
          (/\ Begins(w, "grant") \/ Begins(w, "deny")
           /\ h'[w].request_id \in 1..Len(access_requests)
           /\ access_requests[h'[w].request_id].status # "pending")
          => /\ h'[w].pc = "done"
             /\ h'[w].status = 400
             /\ h'[w].error = "RequestNotPending"
             /\ h'[w].token = NoToken
             /\ access_requests' = access_requests
             /\ token_log' = token_log
             /\ audit_logs' = audit_logs
      ]_vars

\* C15 witness: a grant or deny call was answered request-not-pending, its
\* request being granted, denied or expired.
C15_Witness ==
    \E w \in Workers :
        /\ IsDecide(w)
        /\ h[w].error = "RequestNotPending"
        /\ access_requests[h[w].request_id].status \in {"granted", "denied", "expired"}

\* C16: once an access attempt (grant, deny or status read) that found its
\* AccessRequest pending and past expires_at has completed, the request is
\* expired.
C16_ExpiredOnAccessAttempt ==
    \A w \in Workers :
        (/\ h[w].op \in {"grant", "deny", "status"}
         /\ h[w].saw_expired
         /\ h[w].pc = "done")
        => access_requests[h[w].request_id].status = "expired"

\* C17: view_user_account gets past its checks only at a time not later than
\* the token's issued-at + 30 minutes.
C17_TokenLivesThirtyMinutes ==
    [][\A w \in Workers :
          (Begins(w, "view") /\ h'[w].pc = "vw_audit")
          => now <= h'[w].token.iat + 30
      ]_vars

\* C17 witness: a view presenting the token of a request that still is granted,
\* 30 minutes or more after the token was issued, was rejected as invalid.
C17_Witness ==
    \E w \in Workers :
        /\ h[w].op = "view" /\ h[w].error = "TokenInvalid"
        /\ h[w].token.key = "PERMISSION_SECRET"
        /\ h[w].token.admin_id = h[w].admin_id /\ h[w].token.user_id = h[w].user_id
        /\ now >= h[w].token.iat + 30
        /\ access_requests[h[w].token.request_id].status = "granted"
        /\ access_requests[h[w].token.request_id].permission_token = h[w].token

(* ================== further properties of the ledger ================== *)
\* the step is one of worker w's handler, which was running operation op
StepOf(w, op) == h[w].op = op /\ InFlight(w) /\ h'[w] # h[w]

\* handler w completed while no other request was handled: none was running
\* when it was accepted, and none has been accepted since
RanAlone(w) == h[w].pc = "done" /\ h[w].quiet /\ h[w].seq = started

C13_WithdrawBeyondBalanceFails ==
    [][\A w \in Workers :
          (Begins(w, "withdraw") /\ h'[w].amount > balance[h'[w].user_id])
          => /\ h'[w].pc = "done"
             /\ h'[w].status = 400
             /\ h'[w].error = "InsufficientFunds"
             /\ balance' = balance
             /\ transactions' = transactions
      ]_vars

\* C13 witness: a withdraw of an amount the account held at the start, but no
\* longer holds, was answered insufficient-funds.
C13_Witness ==
    \E w \in Workers :
        /\ h[w].op = "withdraw" /\ h[w].error = "InsufficientFunds"
        /\ h[w].amount > balance[h[w].user_id]
        /\ h[w].amount <= initial_balance[h[w].user_id]
        /\ h[w].writes = 0

\* C18: a deposit with amount <= 0 or amount > 1,000,000 is answered
\* invalid-amount (400) at once and changes no balance and no Transaction
\* record; any other deposit is carried out: its balance write raises the
\* account's balance by exactly amount, and it appends exactly one Transaction,
\* a credit of that amount with balance_after the new balance, fraud_score 0
\* and is_flagged false.
C18_DepositContract ==
    [][\A w \in Workers :
          /\ (Begins(w, "deposit") /\ (h'[w].amount <= 0 \/ h'[w].amount > 1000000))
             => /\ h'[w].pc = "done"
                /\ h'[w].status = 400
                /\ h'[w].error = "InvalidAmount"
                /\ balance' = balance
                /\ transactions' = transactions
          /\ (Begins(w, "deposit") /\ h'[w].amount > 0 /\ h'[w].amount <= 1000000)
             => h'[w].pc = "dep_update"
          /\ (StepOf(w, "deposit") /\ h[w].pc = "dep_update" /\ h'[w].pc # "aborted")
             => balance' = [balance EXCEPT ![h[w].user_id] = @ + h[w].amount]
          /\ (StepOf(w, "deposit") /\ h[w].pc = "dep_insert" /\ h'[w].pc # "aborted")
             => transactions' = Append(transactions,
                    [user_id |-> h[w].user_id, type |-> "credit",
                     amount |-> h[w].amount, balance_after |-> h[w].new_balance,
                     related_account |-> "", is_flagged |-> FALSE,
                     fraud_score |-> 0, timestamp |-> now])
          /\ (StepOf(w, "deposit") /\ h[w].pc # "dep_update") => balance' = balance
          /\ (StepOf(w, "deposit") /\ h[w].pc # "dep_insert") => transactions' = transactions
      ]_vars

\* C19: a withdraw that passed the amount and sufficient-funds checks goes on
\* to its writes whatever verdict predict_fraud returns; its balance write lowers
\* the account's balance by exactly amount; the debit Transaction it appends
\* carries that verdict (is_flagged, fraud_score); and its response carries the
\* warning if and only if the verdict is flagged.
C19_WithdrawCompletesWithVerdict ==
    [][\A w \in Workers :
          /\ (StepOf(w, "withdraw") /\ h[w].pc = "wd_score" /\ h'[w].pc # "aborted")
             => /\ h'[w].pc = "wd_update"
                /\ [is_fraud |-> h'[w].is_fraud, fraud_score |-> h'[w].fraud_score]
                      \in predict_fraud_outcomes(h'[w].model, h[w].amount, hour(now),
                              h[w].balance_read, count_today(h[w].user_id, now))
          /\ (StepOf(w, "withdraw") /\ h[w].pc = "wd_update" /\ h'[w].pc # "aborted")
             => balance' = [balance EXCEPT ![h[w].user_id] = @ - h[w].amount]
          /\ (StepOf(w, "withdraw") /\ h[w].pc = "wd_insert" /\ h'[w].pc # "aborted")
             => /\ Len(transactions') = Len(transactions) + 1
                /\ transactions'[Len(transactions')].type = "debit"
                /\ transactions'[Len(transactions')].user_id = h[w].user_id
                /\ transactions'[Len(transactions')].amount = h[w].amount
                /\ transactions'[Len(transactions')].is_flagged = h[w].is_fraud
                /\ transactions'[Len(transactions')].fraud_score = h[w].fraud_score
          /\ (StepOf(w, "withdraw") /\ h'[w].pc = "done")
             => /\ h'[w].status = 200
                /\ h'[w].warning = h[w].is_fraud
      ]_vars

\* C20: a withdraw of 400 from an account holding 1500, run alone at hour 2
\* with 12 transactions recorded the same day and scored by the rule-based
\* branch, succeeds, leaves a balance of 1100 and appends a debit Transaction
\* with is_flagged true and a fraud_score above 0.
C20_ExampleWithdrawFlagged ==
    \A w \in Workers :
        (/\ h[w].op = "withdraw" /\ RanAlone(w)
         /\ h[w].amount = 400
         /\ h[w].pre_balance[h[w].user_id] = 1500
         /\ h[w].model = "rule_based"
         /\ h[w].ctx_hour = 2
         /\ h[w].ctx_count = 12)
        => /\ h[w].status = 200
           /\ balance[h[w].user_id] = 1100
           /\ Len(transactions) = h[w].pre_txn + 1
           /\ transactions[Len(transactions)].type = "debit"
           /\ transactions[Len(transactions)].amount = 400
           /\ transactions[Len(transactions)].is_flagged = TRUE
           /\ transactions[Len(transactions)].fraud_score > 0

(* ===================== properties of registration ===================== *)
\* C30: no two accounts (user documents; an admin document has no account
\* number) carry the same account_number.
C30_UniqueAccountNumbers ==
    \A i, j \in 1..Len(users) :
        (i # j /\ users[i].role = "user" /\ users[j].role = "user")
            => users[i].account_number # users[j].account_number

(* ====================== properties of faulted requests ================= *)
\* C22: a deposit or withdraw that a fault aborted has committed nothing or
\* both of its writes: the balance update and the Transaction record.
C22_NoPartialCommit ==
    \A w \in Workers :
        (h[w].op \in {"deposit", "withdraw"} /\ h[w].pc = "aborted")
            => h[w].writes \in {0, 2}

(* ======================== properties of side effects =================== *)
\* the step at which each handler sends its e-mail, and the step after it
EmailPoints == {"dep_email", "wd_email", "tr_email", "ra_email", "gr_email", "dn_email"}
AuditAfter(pc) ==
    CASE pc = "dep_email" -> "dep_audit"
      [] pc = "wd_email" -> "wd_audit"
      [] pc = "tr_email" -> "tr_audit"
      [] pc = "ra_email" -> "ra_audit"
      [] pc = "gr_email" -> "gr_audit"
      [] pc = "dn_email" -> "dn_audit"

\* the primary mutation of the handler at its e-mail step is in the database
Committed(w) ==
    CASE h[w].op \in {"deposit", "withdraw"} -> h[w].writes = 2
      [] h[w].op = "transfer" -> h[w].writes = 4
      [] h[w].op = "request_access" ->
            /\ h[w].request_id \in 1..Len(access_requests)
            /\ access_requests[h[w].request_id].admin_id = h[w].admin_id
            /\ access_requests[h[w].request_id].user_id = h[w].user_id
      [] h[w].op = "grant" ->
            /\ access_requests[h[w].request_id].status # "pending"
            /\ \E i \in 1..Len(token_log) : token_log[i] = h[w].token
      [] h[w].op = "deny" -> access_requests[h[w].request_id].status # "pending"

\* C24: when the e-mail of a deposit, withdraw, transfer, request_access, grant
\* or deny is not delivered, the handler goes on to its audit write with no
\* error response, its primary mutation is in the database, and neither that
\* step nor the handler's next one touches an account, a Transaction or an
\* AccessRequest; the request is answered 200 / 201 unless the audit write
\* itself faults.
C24_EmailFailureNotRaised ==
    [][\A w \in Workers :
          /\ (h[w].pc \in EmailPoints /\ h'[w] # h[w] /\ h'[w].mail = "failed")
             => /\ h'[w].pc = AuditAfter(h[w].pc)
                /\ h'[w].status = 0
                /\ Committed(w)
                /\ ledger_vars' = ledger_vars
                /\ access_vars' = access_vars
          /\ (h[w].mail = "failed" /\ h'[w] # h[w])
             => /\ ledger_vars' = ledger_vars
                /\ access_vars' = access_vars
                /\ \/ h'[w].pc = "done" /\ h'[w].status \in {200, 201}
                   \/ h'[w].pc = "aborted" /\ faulted'
      ]_vars

\* C24 witness: a grant and a transfer whose e-mails were not delivered both
\* stand at their audit write, the request granted and the transfer's four
\* writes made.
C24_Witness ==
    /\ \E w \in Workers :
          /\ h[w].op = "grant" /\ h[w].pc = "gr_audit" /\ h[w].mail = "failed"
          /\ access_requests[h[w].request_id].status = "granted"
    /\ \E w \in Workers :
          /\ h[w].op = "transfer" /\ h[w].pc = "tr_audit" /\ h[w].mail = "failed"
          /\ h[w].writes = 4

(* ========================= properties of the audit log ================= *)
\* the action name log_action is given by each handler
AuditAction(op) ==
    CASE op = "deposit" -> "deposit"
      [] op = "withdraw" -> "withdrawal"
      [] op = "transfer" -> "transfer"
      [] op = "request_access" -> "request_account_access"
      [] op = "grant" -> "grant_admin_access"
      [] op = "deny" -> "deny_admin_access"
      [] OTHER -> "none"

\* who carried the operation out: the admin for request_access, the account's
\* owner for everything else
AuditActor(rec) == IF rec.op = "request_access" THEN rec.admin_id ELSE rec.user_id

\* the handler that answers at this step has carried out its operation
Carried(w) ==
    /\ h[w].pc # "done" /\ h'[w].pc = "done"
    /\ h'[w].op \in {"deposit", "withdraw", "transfer", "request_access", "grant", "deny"}
    /\ h'[w].status \in {200, 201}

\* the handler that answers at this step has flipped its request to expired
Expired(w) ==
    /\ h[w].pc # "done" /\ h'[w].pc = "done"
    /\ h'[w].op = "grant" /\ h'[w].error = "RequestExpired"

\* C21: every deposit, withdraw, transfer, request_access, grant and deny that
\* is carried out appends an audit entry with its actor and its action, and
\* the step that flips a request to expired appends an audit entry of the
\* account's owner too.
C21_EveryChangeAudited ==
    [][\A w \in Workers :
          /\ Carried(w)
             => /\ Len(audit_logs') = Len(audit_logs) + 1
                /\ audit_logs'[Len(audit_logs')].actor_id = AuditActor(h'[w])
                /\ audit_logs'[Len(audit_logs')].action = AuditAction(h'[w].op)
          /\ Expired(w)
             => /\ access_requests'[h[w].request_id].status = "expired"
                /\ Len(audit_logs') = Len(audit_logs) + 1
                /\ audit_logs'[Len(audit_logs')].actor_id = h'[w].user_id
      ]_vars

(* ====================== properties of rejected transfers =============== *)
\* the failure a transfer by account u of amt to the account number to ends
\* with, given the sender's balance bal as the handler read it; the conditions
\* in the order the handler tests them
TransferFailure(u, to, amt, bal) ==
    IF to = "" THEN "RecipientRequired"
    ELSE IF amt <= 0 THEN "InvalidAmount"
    ELSE IF \A v \in UserIds : account_number(v) # to THEN "RecipientNotFound"
    ELSE IF account_number(u) = to THEN "SelfTransfer"
    ELSE IF amt > bal THEN "InsufficientFunds"
    ELSE "none"

\* C23: a transfer with amount <= 0 fails with invalid-amount, one to a number
\* no account has with recipient-not-found, one to the sender's own number with
\* self-transfer, one of more than the sender's balance (as the handler read
\* it) with insufficient-funds; a transfer of none of these kinds goes on to
\* its writes.  No step of a transfer that fails changes a balance or appends a
\* Transaction record.
C23_TransferFailures ==
    [][\A w \in Workers :
          /\ Begins(w, "transfer")
             => /\ h'[w].pc \in {"done", "tr_recipient"}
                /\ h'[w].pc = "tr_recipient" => h'[w].balance_read = balance[h'[w].user_id]
                /\ h'[w].pc = "done"
                   <=> TransferFailure(h'[w].user_id, h'[w].to_account, h'[w].amount, 0)
                          \in {"RecipientRequired", "InvalidAmount"}
                /\ h'[w].pc = "done"
                   => /\ h'[w].error = TransferFailure(h'[w].user_id, h'[w].to_account,
                                                       h'[w].amount, 0)
                      /\ h'[w].status = 400
                /\ ledger_vars' = ledger_vars
          /\ (h[w].pc = "tr_recipient" /\ h'[w] # h[w] /\ h'[w].pc # "aborted")
             => LET failure == TransferFailure(h[w].user_id, h[w].to_account,
                                               h[w].amount, h[w].balance_read)
                IN  /\ failure = "none" => h'[w].pc = "tr_debit"
                    /\ failure # "none"
                       => /\ h'[w].pc = "done"
                          /\ h'[w].error = failure
                          /\ h'[w].status = IF failure = "RecipientNotFound" THEN 404 ELSE 400
                          /\ h'[w].writes = 0
                    /\ ledger_vars' = ledger_vars
      ]_vars

\* C23 witness: one transfer was answered insufficient-funds and another
\* recipient-not-found, neither having written anything.
C23_Witness ==
    \E w1, w2 \in Workers :
        /\ h[w1].op = "transfer" /\ h[w1].error = "InsufficientFunds" /\ h[w1].writes = 0
        /\ h[w2].op = "transfer" /\ h[w2].error = "RecipientNotFound" /\ h[w2].writes = 0
        /\ balance = initial_balance /\ transactions = <<>>

(* ======================= properties of scoring faults ================== *)
\* C25: when something inside predict_fraud raises, the call returns is_fraud
\* false with fraud_score 0 and the withdraw goes on to its balance write; from
\* there on only a fault of a database operation keeps it from its 200
\* response, which carries no warning.
C25_ScoringFaultIsSafe ==
    [][\A w \in Workers :
          /\ (h[w].pc = "wd_score" /\ h'[w].model = "fallback_error")
             => /\ h'[w].pc = "wd_update"
                /\ h'[w].status = 0
                /\ ~h'[w].is_fraud
                /\ h'[w].fraud_score = 0
          /\ (StepOf(w, "withdraw") /\ h[w].model = "fallback_error")
             => \/ h'[w].pc \in {"wd_insert", "wd_email", "wd_audit"}
                \/ h'[w].pc = "done" /\ h'[w].status = 200 /\ ~h'[w].warning
                \/ h'[w].pc = "aborted" /\ faulted'
      ]_vars

\* C25 witness: a withdraw scored by the except branch of predict_fraud has
\* been answered 200, and its debit record carries fraud_score 0, unflagged.
C25_Witness ==
    \E w \in Workers :
        /\ h[w].op = "withdraw" /\ h[w].pc = "done" /\ h[w].status = 200
        /\ h[w].model = "fallback_error"
        /\ \E i \in 1..Len(transactions) :
              /\ transactions[i].type = "debit"
              /\ transactions[i].amount = h[w].amount
              /\ transactions[i].fraud_score = 0
              /\ ~transactions[i].is_flagged

(* ===================== properties of the fraud score =================== *)
\* a condition that is satisfied adds its weight, in hundredths
Weight(condition, weight) == IF condition THEN weight ELSE 0

\* C26: the rule-based score of a fraud check or a withdrawal is the sum of
\* 0.30 if balance_before > 0 and amount / balance_before > 0.8, 0.20 if the
\* hour is in 0..5, 0.25 if the same-day count is above 10 and 0.25 if the
\* amount is above 100000, capped at 1.0; it lies in [0, 1]; and is_fraud is
\* true exactly when the score is at least 0.5.
\* (amount, balance_before, hour and count are the values the handler passed.)
C26_RuleBasedScore ==
    [][\A w \in Workers :
          (h[w].pc \in {"fc_user", "wd_score"} /\ h'[w].model = "rule_based")
          => LET amount == h'[w].amount
                 balance_before == h'[w].balance_read
                 sum == Weight(balance_before > 0 /\ 10 * amount > 8 * balance_before, 30)
                      + Weight(h'[w].ctx_hour \in 0..5, 20)
                      + Weight(h'[w].ctx_count > 10, 25)
                      + Weight(amount > 100000, 25)
             IN  /\ h'[w].fraud_score = IF sum > 100 THEN 100 ELSE sum
                 /\ h'[w].fraud_score \in 0..100
                 /\ h'[w].is_fraud <=> h'[w].fraud_score >= 50
      ]_vars

\* C26 witness: one fraud check was scored 0.5 and flagged (0.30 + 0.20), and
\* another, of exactly 0.8 of the balance at a late hour with more than ten
\* transactions today, was scored 0.45 and not flagged.
C26_Witness ==
    \E w1, w2 \in Workers :
        /\ h[w1].op = "fraud_check" /\ h[w1].pc = "done"
        /\ h[w1].fraud_score = 50 /\ h[w1].is_fraud
        /\ h[w2].op = "fraud_check" /\ h[w2].pc = "done"
        /\ 10 * h[w2].amount = 8 * h[w2].balance_read
        /\ h[w2].fraud_score = 45 /\ ~h[w2].is_fraud

(* ===================== properties of the two journals ================== *)
\* sequence s is the beginning of sequence t
IsPrefix(s, t) == Len(s) <= Len(t) /\ \A i \in 1..Len(s) : t[i] = s[i]

\* C27: no step of any operation changes or removes a Transaction record or
\* an audit entry that exists: after every step both collections begin with
\* what they held before it.
C27_AppendOnly ==
    [][IsPrefix(transactions, transactions') /\ IsPrefix(audit_logs, audit_logs')]_vars

\* C27 witness: three Transaction records and three audit entries exist, the
\* newest audit entry being a transfer's.
C27_Witness ==
    /\ Len(transactions) >= 3
    /\ Len(audit_logs) >= 3
    /\ audit_logs[Len(audit_logs)].action = "transfer"

(* ================== frame properties of access delegation ============== *)
\* C28: no step of a grant or deny handler adds, removes or changes an
\* AccessRequest other than the one the decision is about, and so none changes
\* whether a token issued for another request passes view_user_account's checks.
C28_DecisionTouchesOneRequest ==
    [][\A w \in Workers :
          (Begins(w, "grant") \/ Begins(w, "deny")
             \/ StepOf(w, "grant") \/ StepOf(w, "deny"))
          => /\ Len(access_requests') = Len(access_requests)
             /\ \A j \in 1..Len(access_requests) :
                   j # h'[w].request_id
                   => /\ access_requests'[j] = access_requests[j]
                      /\ \A i \in 1..Len(token_log) :
                            token_log[i].request_id = j
                            => /\ token_log'[i] = token_log[i]
                               /\ (verify_permission_token(token_log[i], now)
                                     /\ find_granted(j))'
                                  = (verify_permission_token(token_log[i], now)
                                       /\ find_granted(j))
      ]_vars

\* C28 witness: the owner has denied the pending request of one admin after
\* granting that of another, whose token still passes the checks of
\* view_user_account.
C28_Witness ==
    \E i, j \in 1..Len(access_requests), w \in Workers :
        /\ i # j
        /\ access_requests[i].user_id = access_requests[j].user_id
        /\ access_requests[i].admin_id # access_requests[j].admin_id
        /\ find_granted(i)
        /\ verify_permission_token(access_requests[i].permission_token, now)
        /\ access_requests[j].status = "denied"
        /\ access_requests[i].granted_at <= access_requests[j].denied_at
        /\ h[w].op = "deny" /\ h[w].pc = "done" /\ h[w].status = 200
        /\ h[w].request_id = j

\* C29: no step of view_user_account changes an account, a Transaction or an
\* AccessRequest; a call that is rejected appends no audit entry; a call that
\* succeeds appends exactly one, at its last step, naming the admin, the target
\* account and the request id of the token.
C29_ViewOnlyAudits ==
    [][\A w \in Workers :
          /\ Begins(w, "view")
             => /\ users' = users
                /\ ledger_vars' = ledger_vars
                /\ access_vars' = access_vars
                /\ audit_logs' = audit_logs
                /\ h'[w].pc \in {"done", "vw_audit"}
                /\ h'[w].pc = "done" => h'[w].status \in {401, 403, 404}
          /\ StepOf(w, "view")
             => /\ users' = users
                /\ ledger_vars' = ledger_vars
                /\ access_vars' = access_vars
                /\ \/ /\ h'[w].pc = "aborted"
                      /\ audit_logs' = audit_logs
                   \/ /\ h'[w].pc = "done" /\ h'[w].status = 200
                      /\ Len(audit_logs') = Len(audit_logs) + 1
                      /\ IsPrefix(audit_logs, audit_logs')
                      /\ LET entry == audit_logs'[Len(audit_logs')]
                         IN  /\ entry.actor_id = h[w].admin_id
                             /\ entry.actor_role = "admin"
                             /\ entry.action = "viewed_user_account"
                             /\ entry.target_user_id = h[w].user_id
                             /\ entry.details.request_id = h[w].token.request_id
      ]_vars

\* C29 witness: one view has succeeded, its entry the newest of the audit log,
\* and another, by an admin the token was not issued to, has been rejected.
C29_Witness ==
    \E w1, w2 \in Workers :
        /\ h[w1].op = "view" /\ h[w1].pc = "done" /\ h[w1].status = 200
        /\ audit_logs[Len(audit_logs)].action = "viewed_user_account"
        /\ audit_logs[Len(audit_logs)].actor_id = h[w1].admin_id
        /\ audit_logs[Len(audit_logs)].details.request_id = h[w1].token.request_id
        /\ h[w2].op = "view" /\ h[w2].pc = "done" /\ h[w2].error = "TokenMismatch"

(* ==================== properties of concurrent transfers =============== *)
RECURSIVE SumOver(_, _)
\* the sum of f over the set S of accounts
SumOver(f, S) ==
    IF S = {} THEN 0
    ELSE LET u == CHOOSE v \in S : TRUE IN f[u] + SumOver(f, S \ {u})

\* C32: with transfers only, once every handler has completed and no database
\* operation has raised, the balances of all accounts sum to what they summed
\* to at the start.
C32_TransfersConserveTotal ==
    (AllQuiet /\ ~faulted) => SumOver(balance, UserIds) = SumOver(initial_balance, UserIds)

(* ================== further properties of access delegation ============ *)
\* admin a has a pending request for account u, and every such request is past
\* its expires_at
OnlyExpiredPending(a, u) ==
    /\ find_pending(a, u)
    /\ \A i \in 1..Len(access_requests) :
          (/\ access_requests[i].admin_id = a
           /\ access_requests[i].user_id = u
           /\ access_requests[i].status = "pending")
          => now > access_requests[i].expires_at

\* C33: a request_access with a valid reason for an existing account, by an
\* admin whose only pending requests for that account are past their
\* expires_at, is not rejected: the handler goes on to insert the new request.
C33_ExpiredPendingDoesNotBlock ==
    [][\A w \in Workers :
          (/\ Begins(w, "request_access")
           /\ h'[w].reason_len >= 10
           /\ h'[w].user_id \in UserIds
           /\ OnlyExpiredPending(h'[w].admin_id, h'[w].user_id))
          => /\ h'[w].pc = "ra_insert"
             /\ h'[w].error # "DuplicatePendingRequest"
      ]_vars

\* C34: in every state the stored permission_token of an AccessRequest is set
\* exactly when its status is granted.
C34_TokenIffGranted ==
    \A i \in 1..Len(access_requests) :
        (access_requests[i].permission_token # NoToken)
            <=> (access_requests[i].status = "granted")

\* C35: in every state granted_at is set on an AccessRequest exactly when its
\* status is granted, denied_at exactly when its status is denied, and no
\* request has both set.
C35_DecisionTimesMatchStatus ==
    \A i \in 1..Len(access_requests) :
        /\ (access_requests[i].granted_at # NoTime) <=> (access_requests[i].status = "granted")
        /\ (access_requests[i].denied_at # NoTime) <=> (access_requests[i].status = "denied")
        /\ ~(access_requests[i].granted_at # NoTime /\ access_requests[i].denied_at # NoTime)

(* ===================== properties of balance_after ==================== *)
\* the index of the Transaction record recorded last for account u
LastRecordOf(u) ==
    CHOOSE i \in 1..Len(transactions) :
        /\ transactions[i].user_id = u
        /\ \A j \in (i + 1)..Len(transactions) : transactions[j].user_id # u

\* C36: whenever no request is in flight (and no database operation has
\* raised), every account that has a Transaction record holds the
\* balance_after of the record recorded last for it.
C36_BalanceAfterIsBalance ==
    (AllQuiet /\ ~faulted) =>
        \A u \in UserIds :
            (\E i \in 1..Len(transactions) : transactions[i].user_id = u)
                => balance[u] = transactions[LastRecordOf(u)].balance_after

(* ================= further properties of registration ================= *)
\* C38: no two documents of the users collection carry the same stored
\* e-mail address.
C38_UniqueEmails ==
    \A i, j \in 1..Len(users) : i # j => users[i].email # users[j].email

(* ========================= properties of login ======================== *)
\* account i's counter is the number of wrong-password answers given for it
\* since its last successful login
CountsWrongAttempts ==
    \A i \in 1..Len(users) :
        users[i].failed_login_attempts = users[i].wrong_since_login

\* C37: whenever no request is in flight (and no database operation has
\* raised) failed_login_attempts is the number of wrong-password attempts since
\* the last successful login; a successful login sets it to 0; an account whose
\* counter is 5 or more is locked; no login issues a session token for an
\* account that is locked at that moment; and no step clears is_locked.
C37_LoginLockout ==
    [][/\ (AllQuiet /\ ~faulted => CountsWrongAttempts)'
       /\ \A i \in 1..Len(users) :
             /\ (users[i].failed_login_attempts >= 5 => users[i].is_locked)'
             /\ users[i].is_locked => users'[i].is_locked
       /\ \A w \in Workers :
             (StepOf(w, "login") /\ h'[w].session)
             => /\ h'[w].status = 200
                /\ users'[h[w].doc].failed_login_attempts = 0
                /\ ~users[h[w].doc].is_locked
      ]_vars

(* ====================== properties of the loan score =================== *)
\* one of the rubric's two-step lines: full points, else part points, else none
Points(full, full_points, part, part_points) ==
    IF full THEN full_points ELSE IF part THEN part_points ELSE 0

\* C31: the rule-based loan score is 30 if the average balance is at least 30 %
\* of the requested amount, plus 25 for an account age of at least 180 days or
\* else 15 for at least 90, plus 25 for at least 10 monthly transactions or
\* else 15 for at least 5, plus 20 if the requested amount is at most 3 times
\* the balance or else 10 if at most 6 times; it lies in 0..100; and eligible
\* is true exactly when the score is at least 60.
C31_RuleBasedLoanScore ==
    [][\A w \in Workers :
          (h[w].pc = "ln_history" /\ h'[w].pc = "done")
          => LET balance_ == h'[w].average_balance
                 requested == h'[w].amount
                 sum == Points(100 * balance_ >= 30 * requested, 30, FALSE, 0)
                      + Points(h'[w].account_age_days >= 180, 25,
                               h'[w].account_age_days >= 90, 15)
                      + Points(h'[w].monthly_transaction_count >= 10, 25,
                               h'[w].monthly_transaction_count >= 5, 15)
                      + Points(requested <= 3 * balance_, 20,
                               requested <= 6 * balance_, 10)
             IN  /\ h'[w].score = sum
                 /\ h'[w].score \in 0..100
                 /\ h'[w].eligible <=> h'[w].score >= 60
      ]_vars

\* C31 witness: one request was scored 60 without the balance points (an
\* average balance of 29 against a request of 100) and found eligible, another
\* was scored 55 with them and found not eligible.
C31_Witness ==
    \E w1, w2 \in Workers :
        /\ h[w1].op = "loan_eligibility" /\ h[w1].pc = "done"
        /\ h[w1].score = 60 /\ h[w1].eligible
        /\ h[w1].average_balance = 29 /\ h[w1].amount = 100
        /\ h[w2].op = "loan_eligibility" /\ h[w2].pc = "done"
        /\ h[w2].score = 55 /\ ~h[w2].eligible
        /\ h[w2].average_balance = 30 /\ h[w2].account_age_days = 90

=============================================================================
